---- MODULE Spec2Model ----
(***************************************************************************)
(* Model of the Metabase migration toolkit: the import pipeline            *)
(* (import_metabase.py and lib/importers), the card dependency sort, the   *)
(* identifier remapping and the export walker.                             *)
(*                                                                         *)
(* Identifiers are small integers.  0 stands for Python's None wherever an *)
(* optional id is stored (collection_id, parent_id, a missing reference).  *)
(***************************************************************************)
EXTENDS Integers, Sequences, FiniteSets, TLC

VARIABLES
    \* ---- CardImporter._topological_sort_cards, applied on its own ----
    sortCards,      \* the list of card ids handed to the sort (manifest order)
    sortDeps,       \* card id -> set of card ids its payload references
    sortResult,     \* the returned order
    sortPc,         \* "input" before the call, "sorted" after it
    \* ---- an import run (MetabaseImporter.run_import, dry_run = False) ----
    conflict_strategy,  \* config.conflict_strategy: "skip", "overwrite", "rename"
    include_archived,   \* config.include_archived
    apply_permissions,  \* config.apply_permissions
    db_map,             \* DatabaseMap: [by_id, by_name], source db -> target db
    manifest,           \* Manifest: databases, database_metadata, collections,
                        \* cards (with the payload of each card file), dashboards,
                        \* permission_groups and the two permission graphs
    target,             \* the target instance: databases, metadata, collections,
                        \* cards, dashboards
    pc,                 \* position of _perform_import
    exit_code,          \* the code given to sys.exit, -1 while running
    table_map,          \* IDRemapper._table_map: <<src db, src table>> -> target table
    field_map,          \* IDRemapper._field_map: <<src db, src field>> -> target field
    target_db_metadata, \* IDRemapper._target_db_metadata: the target dbs fetched
    collection_map,     \* CollectionImporter._collection_map
    card_map,           \* CardImporter._card_map
    flat_target_collections, \* the flattened tree fetched by import_collections
    work,               \* the list the current for loop runs over
    cursor,             \* index in work of the next item of the loop
    report,             \* ImportReport.results
    report_written,     \* whether import_report_<ts>.json was written
    calls,              \* every create/update call issued to the target, in order
    failures,           \* API calls that raised MetabaseAPIError so far
    next_id,            \* the id the target gives to the next created entity
    \* ---- an export run (MetabaseExporter.run_export) ----
    source,                 \* the source instance: databases, collections, the
                            \* items each collection lists, cards, dashboards
    export_config,          \* ExportConfig: root_collection_ids,
                            \* include_dashboards, include_permissions
    export_pc,              \* position of run_export
    export_exit_code,       \* the code the process exits with, -1 while running
    export_manifest,        \* the Manifest being filled
    manifest_written,       \* whether manifest.json was written
    collection_path_map,    \* CollectionExporter._collection_path_map
    exported_cards,         \* CardExporter._exported_cards
    cycle_warnings,         \* "Circular dependency detected" warnings logged
    export_work,            \* the collections the traversal visits, in order
    export_cursor,          \* index in export_work of the next collection
    export_failures,        \* steps of the run in which an API call raised
    \* ---- one use of the rewriters (IDRemapper.remap_card_query and the
    \*      parameter rewriters of DashboardImporter) ----
    rewrite_pc,             \* "card", "dashcard", "parameters", "permissions" or
                            \* "collection_permissions" before the call;
                            \* "once" and "twice" after remap_card_query,
                            \* "dashcard_done" and "parameters_done" after the
                            \* others; "idle" in the other runs
    rewrite_input,          \* the card payload, dashcard or dashboard given
    card_map_items,         \* the source ids of card_map in insertion order
    rewrite_output          \* the results of the calls made so far, in order

sortVars == <<sortCards, sortDeps, sortResult, sortPc>>

configVars == <<conflict_strategy, include_archived, apply_permissions, db_map, manifest>>

runVars == <<target, pc, exit_code, table_map, field_map, target_db_metadata,
             collection_map, card_map,
             flat_target_collections, work, cursor, report, report_written, calls,
             failures, next_id>>

importVars == <<configVars, runVars>>

exportVars == <<source, export_config, export_pc, export_exit_code, export_manifest,
               manifest_written, collection_path_map, exported_cards, cycle_warnings,
               export_work, export_cursor, export_failures>>

rewriteVars == <<rewrite_pc, rewrite_input, card_map_items, rewrite_output>>

vars == <<sortVars, importVars, exportVars, rewriteVars>>

(***************************************************************************)
(* Generic helpers on sequences and sets.                                  *)
(***************************************************************************)
SeqToSet(s) == {s[i] : i \in DOMAIN s}

Contains(s, x) == \E i \in DOMAIN s : s[i] = x

\* position of the first occurrence of x in s, 0 when absent
IndexOf(s, x) ==
    IF Contains(s, x) THEN CHOOSE i \in DOMAIN s : s[i] = x /\ \A j \in 1..(i-1) : s[j] # x
    ELSE 0

\* the elements of s that satisfy Keep, in the order of s
RECURSIVE FilterSeq(_, _)
FilterSeq(s, keep) ==
    IF s = <<>> THEN <<>>
    ELSE IF Head(s) \in keep THEN <<Head(s)>> \o FilterSeq(Tail(s), keep)
    ELSE FilterSeq(Tail(s), keep)

\* all the orderings of a finite set
Orderings(S) ==
    {p \in [1..Cardinality(S) -> S] : \A x \in S : \E i \in DOMAIN p : p[i] = x}

\* some listing of a finite set
RECURSIVE SetToSeq(_)
SetToSeq(S) ==
    IF S = {} THEN <<>>
    ELSE LET x == CHOOSE y \in S : TRUE IN <<x>> \o SetToSeq(S \ {x})

\* list.sort() on a list of integers
RECURSIVE SortList(_)
SortList(s) ==
    IF s = <<>> THEN <<>>
    ELSE LET m == CHOOSE x \in SeqToSet(s) : \A y \in SeqToSet(s) : x <= y
             i == IndexOf(s, m)
             rest == SubSeq(s, 1, i - 1) \o SubSeq(s, i + 1, Len(s))
         IN  <<m>> \o SortList(rest)

(***************************************************************************)
(* Bounds of the sort's input space.                                       *)
(***************************************************************************)
\* number of cards handed to the sort
NumSortCards == 3
\* a card payload carries one source-table and its joins: at most this many
\* distinct referenced cards per card
MaxRefs == 2

SortIds == 1..NumSortCards
\* one more id than there are cards: a reference to a card outside the list
RefIds == 1..(NumSortCards + 1)

(***************************************************************************)
(* CardImporter._topological_sort_cards (Kahn's algorithm).                *)
(*   cards : list of card ids, in the order of the list given              *)
(*   deps  : card id -> _extract_card_dependencies of its file             *)
(***************************************************************************)
\* dependencies[card.id] = deps & set(card_map.keys())
sort_dependencies(cards, deps) ==
    [c \in SeqToSet(cards) |-> deps[c] \cap SeqToSet(cards)]

\* in_degree after "Calculate in-degrees"
sort_in_degree(cards, deps) ==
    [c \in SeqToSet(cards) |-> Cardinality(sort_dependencies(cards, deps)[c])]

\* the cards whose in-degree the removal of card_id brings to zero, in
\* dictionary (list) order: what one pass of the inner for loop appends
sort_released(cards, dependencies, in_degree, card_id) ==
    FilterSeq(cards, {o \in SeqToSet(cards) :
                        card_id \in dependencies[o] /\ in_degree[o] - 1 = 0})

\* the while loop: sort the queue, pop its head, append it, release dependents
RECURSIVE sort_kahn_loop(_, _, _, _, _)
sort_kahn_loop(cards, dependencies, in_degree, queue, sorted_cards) ==
    IF queue = <<>> THEN sorted_cards
    ELSE LET q == SortList(queue)
             card_id == Head(q)
             in_degree2 == [o \in DOMAIN in_degree |->
                              IF card_id \in dependencies[o]
                              THEN in_degree[o] - 1 ELSE in_degree[o]]
         IN  sort_kahn_loop(cards, dependencies, in_degree2,
                            Tail(q) \o sort_released(cards, dependencies, in_degree, card_id),
                            Append(sorted_cards, card_id))

\* remaining = [card_map[id] for id in card_map.keys() if id not in sorted]:
\* the cards Kahn's loop never released, in the order of the list given
sort_remaining(cards, sorted_cards) ==
    FilterSeq(cards, SeqToSet(cards) \ SeqToSet(sorted_cards))

topological_sort_cards(cards, deps) ==
    LET dependencies == sort_dependencies(cards, deps)
        in_degree == sort_in_degree(cards, deps)
        queue == FilterSeq(cards, {c \in SeqToSet(cards) : in_degree[c] = 0})
        sorted_cards == sort_kahn_loop(cards, dependencies, in_degree, queue, <<>>)
    IN  IF Len(sorted_cards) < Len(cards)
        THEN sorted_cards \o sort_remaining(cards, sorted_cards)
        ELSE sorted_cards

(***************************************************************************)
(* Partial maps (Python dicts).  None is 0.                                *)
(***************************************************************************)
EmptyMap == <<>>

\* dict.get(key): the value, or None
Get(m, k) == IF k \in DOMAIN m THEN m[k] ELSE 0

\* variant of Put that forgets the other entries
PutAlone(m, k, v) == [x \in {k} |-> v]

\* m[k] = v
Put(m, k, v) == [x \in (DOMAIN m) \cup {k} |-> IF x = k THEN v ELSE m[x]]

\* lexicographic order of two strings given as sequences of character codes
RECURSIVE LexLess(_, _)
LexLess(a, b) ==
    IF b = <<>> THEN FALSE
    ELSE IF a = <<>> THEN TRUE
    ELSE IF Head(a) < Head(b) THEN TRUE
    ELSE IF Head(a) > Head(b) THEN FALSE
    ELSE LexLess(Tail(a), Tail(b))

(***************************************************************************)
(* Bounds of an import run.                                                *)
(***************************************************************************)
\* API calls that may raise MetabaseAPIError during one run
MaxFailures == 1
\* the target may already hold "<name> (1)" .. "<name> (MaxTaken)"
MaxTaken == 1

\* ids the target gives: existing entities are below FirstNewId
FirstNewId == 600

(***************************************************************************)
(* IDRemapper.resolve_db_id                                                *)
(***************************************************************************)
resolve_db_id(source_db_id) ==
    IF source_db_id \in DOMAIN db_map.by_id
    THEN db_map.by_id[source_db_id]
    ELSE IF source_db_id \in DOMAIN manifest.databases
            /\ manifest.databases[source_db_id] \in DOMAIN db_map.by_name
         THEN db_map.by_name[manifest.databases[source_db_id]]
         ELSE 0

(***************************************************************************)
(* ImportValidator                                                         *)
(***************************************************************************)
\* the cards an import run installs: not card.archived or include_archived
cards_to_import ==
    FilterSeq(manifest.cards,
              {c \in SeqToSet(manifest.cards) : ~c.archived \/ include_archived})

\* validate_database_mappings: the source databases without a mapping
validate_database_mappings ==
    {c.database_id : c \in {x \in SeqToSet(cards_to_import) :
                              resolve_db_id(x.database_id) = 0}}

\* validate_target_databases: the mapped target ids absent from the target
missing_target_ids ==
    {resolve_db_id(d) : d \in {x \in DOMAIN manifest.databases : resolve_db_id(x) # 0}}
        \ target.databases

\* validate_all, then the hand-over to build_table_and_field_mappings.
\* sys.exit(1) on an unmapped database, on a failed get_databases call and
\* on a mapped target database that does not exist.
ValidateAll ==
    /\ pc = "validate"
    /\ \/ /\ validate_database_mappings # {}
          /\ pc' = "exit" /\ exit_code' = 1
          /\ UNCHANGED <<failures, work, cursor>>
       \/ /\ validate_database_mappings = {}
          /\ failures < MaxFailures
          /\ failures' = failures + 1
          /\ pc' = "exit" /\ exit_code' = 1
          /\ UNCHANGED <<work, cursor>>
       \/ /\ validate_database_mappings = {}
          /\ missing_target_ids # {}
          /\ pc' = "exit" /\ exit_code' = 1
          /\ UNCHANGED <<failures, work, cursor>>
       \/ /\ validate_database_mappings = {}
          /\ missing_target_ids = {}
          /\ pc' = "build"
          /\ work' = SortList(SetToSeq(DOMAIN manifest.databases))
          /\ cursor' = 1
          /\ UNCHANGED <<failures, exit_code>>
    /\ UNCHANGED <<sortVars, rewriteVars, exportVars, configVars, target, table_map, field_map, target_db_metadata,
                   collection_map, card_map, flat_target_collections, report,
                   report_written, calls, next_id>>

(***************************************************************************)
(* IDRemapper.build_table_and_field_mappings, one source database per step *)
(***************************************************************************)
\* target_tables_by_name[name]: the last target table of that name
table_by_name(tables, name) ==
    LET hits == {i \in DOMAIN tables : tables[i].name = name}
    IN  tables[CHOOSE i \in hits : \A j \in hits : j <= i]

has_name(rows, name) == \E i \in DOMAIN rows : rows[i].name = name

\* the entries one source database adds to _table_map
tables_mapped(source_db_id, source_tables, target_tables) ==
    [k \in {<<source_db_id, source_tables[i].id>> :
               i \in {j \in DOMAIN source_tables :
                        has_name(target_tables, source_tables[j].name)}}
       |-> LET st == source_tables[CHOOSE i \in DOMAIN source_tables :
                                        source_tables[i].id = k[2]]
           IN  table_by_name(target_tables, st.name).id]

\* the entries one source database adds to _field_map: the fields of every
\* matched table, matched by name inside the matched target table
fields_mapped(source_db_id, source_tables, target_tables) ==
    LET pairs == {<<i, j>> \in (DOMAIN source_tables) \X (1..8) :
                    /\ has_name(target_tables, source_tables[i].name)
                    /\ j \in DOMAIN source_tables[i].fields
                    /\ has_name(table_by_name(target_tables, source_tables[i].name).fields,
                                source_tables[i].fields[j].name)}
    IN  [k \in {<<source_db_id, source_tables[p[1]].fields[p[2]].id>> : p \in pairs}
           |-> LET p == CHOOSE q \in pairs : source_tables[q[1]].fields[q[2]].id = k[2]
                   tt == table_by_name(target_tables, source_tables[p[1]].name)
               IN  table_by_name(tt.fields, source_tables[p[1]].fields[p[2]].name).id]

\* m.update(more)
Merge(m, more) ==
    [k \in (DOMAIN m) \cup (DOMAIN more) |-> IF k \in DOMAIN more THEN more[k] ELSE m[k]]

BuildMappingsForDb ==
    /\ pc = "build"
    /\ cursor <= Len(work)
    /\ LET source_db_id == work[cursor]
           target_db_id == resolve_db_id(source_db_id)
           source_tables == IF source_db_id \in DOMAIN manifest.database_metadata
                            THEN manifest.database_metadata[source_db_id] ELSE <<>>
           skip == target_db_id = 0 \/ source_tables = <<>>
           cached == target_db_id \in target_db_metadata
       IN  \/ /\ skip
              /\ UNCHANGED <<table_map, field_map, target_db_metadata, failures>>
           \/ \* get_database_metadata raises: the database is left unmapped
              /\ ~skip /\ ~cached
              /\ failures < MaxFailures
              /\ failures' = failures + 1
              /\ UNCHANGED <<table_map, field_map, target_db_metadata>>
           \/ /\ ~skip
              /\ LET target_tables == target.metadata[target_db_id]
                 IN  /\ table_map' = Merge(table_map,
                            tables_mapped(source_db_id, source_tables, target_tables))
                     /\ field_map' = Merge(field_map,
                            fields_mapped(source_db_id, source_tables, target_tables))
              /\ target_db_metadata' = target_db_metadata \cup {target_db_id}
              /\ UNCHANGED failures
    /\ cursor' = cursor + 1
    /\ UNCHANGED <<sortVars, rewriteVars, exportVars, configVars, target, pc, exit_code, collection_map, card_map,
                   flat_target_collections, work, report, report_written, calls, next_id>>

(***************************************************************************)
(* Report items and the log of write calls.                                *)
(***************************************************************************)
\* ImportReportItem(entity_type, status, source_id, target_id, name)
ImportReportItem(entity_type, status, source_id, target_id, name) ==
    [entity_type |-> entity_type, status |-> status, source_id |-> source_id,
     target_id |-> target_id, name |-> name]

NoRef == [kind |-> "none", id |-> 0]

\* one create_* or update_* request: the entity it is for, the id it acts on
\* (the id given by the target for a successful create), what the payload
\* carries, and whether the target accepted it
ApiCall(api, src, id, name, collection_id, source_table, joins, dashcards, ok) ==
    [api |-> api, src |-> src, id |-> id, name |-> name, collection_id |-> collection_id,
     source_table |-> source_table, joins |-> joins, dashcards |-> dashcards, ok |-> ok]

(***************************************************************************)
(* sorted(items, key=...) : Python's stable sort on string keys            *)
(***************************************************************************)
sorted_order(keys) ==
    CHOOSE p \in Orderings(DOMAIN keys) :
        \A i, j \in DOMAIN keys :
            i < j => \/ LexLess(keys[p[i]], keys[p[j]])
                     \/ (~LexLess(keys[p[j]], keys[p[i]]) /\ p[i] < p[j])

\* variant of sorted_by that keeps the order of the list
manifest_order(items, keys) == items

sorted_by(items, keys) == [i \in DOMAIN items |-> items[sorted_order(keys)[i]]]

(***************************************************************************)
(* ConflictResolver                                                        *)
(***************************************************************************)
\* should_skip, should_overwrite, should_rename: existing_item is the id the
\* lookup returned, None (0) when it found nothing
\* variants of should_skip and should_overwrite that never hold
never_skip(existing_item) == FALSE

never_overwrite(existing_item) == FALSE

\* variant of should_skip that does not look at the strategy
skip_under_any_strategy(existing_item) == existing_item # 0

should_skip(existing_item) == existing_item # 0 /\ conflict_strategy = "skip"

should_overwrite(existing_item) == existing_item # 0 /\ conflict_strategy = "overwrite"

should_rename(existing_item) == existing_item # 0 /\ conflict_strategy = "rename"

\* f"{base_name} ({counter})"
numbered_name(base_name, counter) == base_name \o " (" \o ToString(counter) \o ")"

\* the name tried by the k-th lookup of generate_unique_name
candidate_name(base_name, k) ==
    IF k = 1 THEN base_name ELSE numbered_name(base_name, k - 1)

\* find_existing_card_in_collection / find_existing_dashboard_in_collection:
\* the id of the first item of the collection with that name; None when
\* there is none and also when get_collection_items raises
find_existing_in_collection(items, name, collection_id, raises) ==
    LET hits == {i \in DOMAIN items :
                    items[i].name = name /\ items[i].collection_id = collection_id}
    IN  IF raises \/ hits = {} THEN 0
        ELSE items[CHOOSE i \in hits : \A j \in hits : i <= j].id

\* the lookup of generate_unique_name that ends its loop: the first one that
\* finds nothing, be it because the name is free or because the call raised
last_probe(items, base_name, collection_id, failing_probe) ==
    CHOOSE k \in 1..(Len(items) + 2) :
        /\ find_existing_in_collection(items, candidate_name(base_name, k),
                                       collection_id, k = failing_probe) = 0
        /\ \A j \in 1..(k - 1) :
               find_existing_in_collection(items, candidate_name(base_name, j),
                                           collection_id, j = failing_probe) # 0

generate_unique_name(items, base_name, collection_id, failing_probe) ==
    candidate_name(base_name, last_probe(items, base_name, collection_id, failing_probe))

(***************************************************************************)
(* CollectionImporter                                                      *)
(***************************************************************************)
\* _flatten_collection_tree: the tree is held as rows with a parent_id; the
\* flat list is the pre-order walk, children in the order the tree gives them
RECURSIVE flatten_collection_tree(_, _, _)
flatten_collection_tree(rows, kids, depth) ==
    IF kids = <<>> \/ depth = 0 THEN <<>>
    ELSE LET coll == Head(kids)
             children == FilterSeq(rows, {r \in SeqToSet(rows) : r.parent_id = coll.id})
         IN  <<[id |-> coll.id, name |-> coll.name, parent_id |-> coll.parent_id]>>
                 \o flatten_collection_tree(rows, children, depth - 1)
                 \o flatten_collection_tree(rows, Tail(kids), depth)

get_collections_tree_flat ==
    flatten_collection_tree(target.collections,
        FilterSeq(target.collections, {r \in SeqToSet(target.collections) : r.parent_id = 0}),
        Len(target.collections))

\* import_collections up to its loop: one fetch of the tree, never repeated
ImportCollectionsBegin ==
    /\ pc = "build"
    /\ cursor > Len(work)
    /\ \/ \* get_collections_tree raises: run_import exits with 1
          /\ failures < MaxFailures
          /\ failures' = failures + 1
          /\ pc' = "exit" /\ exit_code' = 1
          /\ UNCHANGED <<flat_target_collections, work, cursor>>
       \/ /\ flat_target_collections' = get_collections_tree_flat
          /\ work' = sorted_by(manifest.collections,
                               [i \in DOMAIN manifest.collections |->
                                    manifest.collections[i].path])
          /\ cursor' = 1
          /\ pc' = "collections"
          /\ UNCHANGED <<failures, exit_code>>
    /\ UNCHANGED <<sortVars, rewriteVars, exportVars, configVars, target, table_map, field_map, target_db_metadata,
                   collection_map, card_map, report, report_written, calls, next_id>>

\* _find_existing_collection: the id of the first row with that name and
\* parent, None when there is none
find_existing_collection(name, target_parent_id, flat) ==
    LET hits == {i \in DOMAIN flat :
                    flat[i].name = name /\ flat[i].parent_id = target_parent_id}
    IN  IF hits = {} THEN 0
        ELSE flat[CHOOSE i \in hits : \A j \in hits : i <= j].id

\* PUT /api/collection/:id
update_collection(colls, id, name, parent_id) ==
    [i \in DOMAIN colls |->
        IF colls[i].id = id THEN [id |-> id, name |-> name, parent_id |-> parent_id]
        ELSE colls[i]]

\* one turn of the loop of import_collections: _import_single_collection and
\* the except clause around it
ImportSingleCollection ==
    /\ pc = "collections"
    /\ cursor <= Len(work)
    /\ LET collection == work[cursor]
           target_parent_id ==
               IF collection.parent_id # 0
               THEN Get(collection_map, collection.parent_id) ELSE 0
           existing_coll == find_existing_collection(collection.name, target_parent_id,
                                                     flat_target_collections)
           failed_item == ImportReportItem("collection", "failed", collection.id, 0,
                                           collection.name)
       IN  \/ \* _handle_existing_collection, skip
              /\ existing_coll # 0 /\ should_skip(existing_coll)
              /\ collection_map' = Put(collection_map, collection.id, existing_coll)
              /\ report' = Append(report, ImportReportItem("collection", "skipped",
                                   collection.id, existing_coll, collection.name))
              /\ UNCHANGED <<target, calls, failures, next_id>>
           \/ \* _handle_existing_collection, overwrite
              /\ existing_coll # 0 /\ ~should_skip(existing_coll)
              /\ should_overwrite(existing_coll)
              /\ \/ /\ failures < MaxFailures
                    /\ failures' = failures + 1
                    /\ calls' = Append(calls, ApiCall("update_collection", collection.id,
                                   existing_coll, collection.name, target_parent_id,
                                   NoRef, <<>>, <<>>, FALSE))
                    /\ report' = Append(report, failed_item)
                    /\ UNCHANGED <<target, collection_map>>
                 \/ /\ target' = [target EXCEPT !.collections =
                                   update_collection(@, existing_coll, collection.name,
                                                     target_parent_id)]
                    /\ calls' = Append(calls, ApiCall("update_collection", collection.id,
                                   existing_coll, collection.name, target_parent_id,
                                   NoRef, <<>>, <<>>, TRUE))
                    /\ collection_map' = Put(collection_map, collection.id, existing_coll)
                    /\ report' = Append(report, ImportReportItem("collection", "updated",
                                   collection.id, existing_coll, collection.name))
                    /\ UNCHANGED failures
              /\ UNCHANGED next_id
           \/ \* _handle_existing_collection, rename: neither branch is taken
              /\ existing_coll # 0 /\ ~should_skip(existing_coll)
              /\ ~should_overwrite(existing_coll)
              /\ UNCHANGED <<target, collection_map, report, calls, failures, next_id>>
           \/ \* _create_new_collection, always called with existing_coll = None
              /\ existing_coll = 0
              /\ \/ /\ failures < MaxFailures
                    /\ failures' = failures + 1
                    /\ calls' = Append(calls, ApiCall("create_collection", collection.id,
                                   0, collection.name, target_parent_id,
                                   NoRef, <<>>, <<>>, FALSE))
                    /\ report' = Append(report, failed_item)
                    /\ UNCHANGED <<target, collection_map, next_id>>
                 \/ /\ target' = [target EXCEPT !.collections = Append(@,
                                   [id |-> next_id, name |-> collection.name,
                                    parent_id |-> target_parent_id])]
                    /\ calls' = Append(calls, ApiCall("create_collection", collection.id,
                                   next_id, collection.name, target_parent_id,
                                   NoRef, <<>>, <<>>, TRUE))
                    /\ collection_map' = Put(collection_map, collection.id, next_id)
                    /\ report' = Append(report, ImportReportItem("collection", "created",
                                   collection.id, next_id, collection.name))
                    /\ next_id' = next_id + 1
                    /\ UNCHANGED failures
    /\ cursor' = cursor + 1
    /\ UNCHANGED <<sortVars, rewriteVars, exportVars, configVars, pc, exit_code, table_map, field_map, target_db_metadata,
                   card_map, flat_target_collections, work, report_written>>

(***************************************************************************)
(* Card payloads.  A card file holds name, collection_id, database_id,     *)
(* table_id and a dataset_query with its database and either an inner      *)
(* query (source-table, joins, clauses) or a native query (the SQL text    *)
(* and its template tags), then result_metadata and                       *)
(* visualization_settings.  A source-table is [kind, id]: an integer       *)
(* table id ("table"), the string "card__<id>" ("card") or absent          *)
(* ("none").  An id of 0 is an absent key or null.                         *)
(***************************************************************************)
CardRef(id) == [kind |-> "card", id |-> id]
TableRef(id) == [kind |-> "table", id |-> id]

\* JSON values: strings, integers, null, lists and objects
StrValue(s) == [kind |-> "str", str |-> s, int |-> 0, keys |-> <<>>, items |-> <<>>]
IntValue(n) == [kind |-> "int", str |-> "", int |-> n, keys |-> <<>>, items |-> <<>>]
NullValue == [kind |-> "null", str |-> "", int |-> 0, keys |-> <<>>, items |-> <<>>]
ListValue(items) == [kind |-> "list", str |-> "", int |-> 0, keys |-> <<>>, items |-> items]
DictValue(keys, items) == [kind |-> "dict", str |-> "", int |-> 0, keys |-> keys, items |-> items]

\* CardImporter._extract_card_dependencies
extract_card_dependencies(card_data) ==
    (IF card_data.source_table.kind = "card" THEN {card_data.source_table.id} ELSE {})
    \cup {card_data.joins[i].id :
            i \in {j \in DOMAIN card_data.joins : card_data.joins[j].kind = "card"}}

\* variant of remap_source_table that leaves card references as they are
remap_tables_only(source_table, source_db_id, cmap) ==
    IF source_table.kind = "table" /\ <<source_db_id, source_table.id>> \in DOMAIN table_map
    THEN TableRef(table_map[<<source_db_id, source_table.id>>]) ELSE source_table

\* IDRemapper._remap_source_table and the body of the loop of _remap_joins
remap_source_table(source_table, source_db_id, cmap) ==
    IF source_table.kind = "card"
    THEN IF source_table.id \in DOMAIN cmap
         THEN CardRef(cmap[source_table.id]) ELSE source_table
    ELSE IF source_table.kind = "table"
    THEN IF <<source_db_id, source_table.id>> \in DOMAIN table_map
         THEN TableRef(table_map[<<source_db_id, source_table.id>>]) ELSE source_table
    ELSE source_table

remap_joins(joins, source_db_id, cmap) ==
    [i \in DOMAIN joins |-> remap_source_table(joins[i], source_db_id, cmap)]

\* variant of remap_field_id that looks the id up whatever the database
remap_field_id_any_database(field_id, source_db_id) ==
    IF \E k \in DOMAIN field_map : k[2] = field_id
    THEN field_map[CHOOSE k \in DOMAIN field_map : k[2] = field_id]
    ELSE field_id

\* the lookup of one integer field id in _field_map
remap_field_id(field_id, source_db_id) ==
    IF field_id # 0 /\ <<source_db_id, field_id>> \in DOMAIN field_map
    THEN field_map[<<source_db_id, field_id>>] ELSE field_id

\* the lookup of one integer table id in _table_map
remap_table_id(table_id, source_db_id) ==
    IF table_id # 0 /\ <<source_db_id, table_id>> \in DOMAIN table_map
    THEN table_map[<<source_db_id, table_id>>] ELSE table_id

\* len(data) >= 2 and data[0] in ("field", "field-id")
is_field_reference(data) ==
    /\ data.kind = "list"
    /\ Len(data.items) >= 2
    /\ data.items[1].kind = "str"
    /\ data.items[1].str \in {"field", "field-id"}

\* variant of remap_field_ids_recursively that looks at the outermost list only
remap_field_ids_at_top(data, source_db_id) ==
    IF is_field_reference(data) /\ data.items[2].kind = "int"
    THEN [data EXCEPT !.items[2] = IntValue(remap_field_id(data.items[2].int, source_db_id))]
    ELSE data

RECURSIVE remap_field_ids_recursively(_, _)

\* IDRemapper.remap_field_ids_recursively
remap_field_ids_recursively(data, source_db_id) ==
    IF data.kind = "list"
    THEN IF Len(data.items) = 0 THEN data
         ELSE IF is_field_reference(data)
         THEN IF data.items[2].kind = "int"
              THEN [data EXCEPT !.items[2] =
                       IntValue(remap_field_id(data.items[2].int, source_db_id))]
              ELSE data
         ELSE [data EXCEPT !.items =
                  [i \in DOMAIN data.items |->
                      remap_field_ids_recursively(data.items[i], source_db_id)]]
    ELSE IF data.kind = "dict"
    THEN [data EXCEPT !.items =
             [i \in DOMAIN data.items |->
                 remap_field_ids_recursively(data.items[i], source_db_id)]]
    ELSE data

QueryClauseKeys == {"filter", "aggregation", "breakout", "order-by", "fields", "expressions"}

\* IDRemapper._remap_query_clauses
remap_query_clauses(clauses, source_db_id) ==
    [key \in DOMAIN clauses |->
        IF key \in QueryClauseKeys
        THEN remap_field_ids_recursively(clauses[key], source_db_id)
        ELSE clauses[key]]

\* IDRemapper._remap_result_metadata
remap_result_metadata(result_metadata, source_db_id) ==
    [i \in DOMAIN result_metadata |->
        [field_ref |-> remap_field_ids_recursively(result_metadata[i].field_ref, source_db_id),
         id |-> remap_field_id(result_metadata[i].id, source_db_id),
         table_id |-> remap_table_id(result_metadata[i].table_id, source_db_id)]]

\* data.get("database_id") or query.get("database")
source_database(card_data) ==
    IF card_data.database_id # 0 THEN card_data.database_id ELSE card_data.query_database

\* IDRemapper.remap_card_query: the payload, the success flag, and whether
\* it raises ValueError instead of returning
remap_card_query(card_data, cmap) ==
    LET source_db_id == source_database(card_data)
        target_db_id == resolve_db_id(source_db_id)
    IN  IF source_db_id = 0
        THEN [data |-> card_data, remapped |-> FALSE, raises |-> FALSE]
        ELSE IF target_db_id = 0
        THEN [data |-> card_data, remapped |-> FALSE, raises |-> TRUE]
        ELSE [data |->
                 [card_data EXCEPT
                     !.query_database = target_db_id,
                     !.database_id = IF @ # 0 THEN target_db_id ELSE @,
                     !.table_id = remap_table_id(@, source_db_id),
                     !.source_table = remap_source_table(@, source_db_id, cmap),
                     !.joins = remap_joins(@, source_db_id, cmap),
                     !.clauses = remap_query_clauses(@, source_db_id),
                     !.result_metadata = remap_result_metadata(@, source_db_id),
                     !.visualization_settings =
                         remap_field_ids_recursively(@, source_db_id)],
              remapped |-> TRUE, raises |-> FALSE]

(***************************************************************************)
(* CardImporter                                                            *)
(***************************************************************************)
\* import_cards up to its loop: the archived filter and the dependency sort
ImportCardsBegin ==
    /\ pc = "collections"
    /\ cursor > Len(work)
    /\ LET ids == [i \in DOMAIN cards_to_import |-> cards_to_import[i].id]
           deps == [id \in SeqToSet(ids) |->
                      extract_card_dependencies(
                          cards_to_import[IndexOf(ids, id)].data)]
           order == topological_sort_cards(ids, deps)
       IN  work' = [i \in DOMAIN order |-> cards_to_import[IndexOf(ids, order[i])]]
    /\ cursor' = 1
    /\ pc' = "cards"
    /\ UNCHANGED <<sortVars, rewriteVars, exportVars, configVars, target, exit_code, table_map, field_map,
                   target_db_metadata, collection_map, card_map,
                   flat_target_collections, report, report_written, calls,
                   failures, next_id>>

\* the card a target instance stores for an accepted payload
TargetCard(id, payload) ==
    [id |-> id, name |-> payload.name, collection_id |-> payload.collection_id,
     database_id |-> payload.database_id, table_id |-> payload.table_id,
     source_table |-> payload.source_table, joins |-> payload.joins,
     clauses |-> payload.clauses, native_sql |-> payload.native_sql,
     template_tags |-> payload.template_tags]

\* the target rejects a payload whose database it does not have, and answers
\* "Card N does not exist" to a payload that references a card it does not hold
target_accepts_card(payload) ==
    /\ payload.database_id \in target.databases
    /\ extract_card_dependencies(payload) \subseteq
           {target.cards[i].id : i \in DOMAIN target.cards}

\* PUT /api/card/:id
update_card(cards, id, payload) ==
    [i \in DOMAIN cards |-> IF cards[i].id = id THEN TargetCard(id, payload) ELSE cards[i]]

\* one turn of the loop of import_cards: _import_single_card and the two
\* except clauses around it.  lookup_raises, failing_probe and write_raises
\* say which of the API calls of this turn raise MetabaseAPIError.
ImportSingleCard ==
    /\ pc = "cards"
    /\ cursor <= Len(work)
    /\ LET card == work[cursor]
           deps == extract_card_dependencies(card.data)
           missing_deps == {d \in deps :
                              /\ d \notin DOMAIN card_map
                              /\ \A i \in DOMAIN manifest.cards : manifest.cards[i].id # d}
           failed_item == ImportReportItem("card", "failed", card.id, 0, card.name)
           target_collection_id ==
               IF card.collection_id # 0 THEN Get(collection_map, card.collection_id) ELSE 0
       IN  \/ \* missing dependencies, or remap_card_query raises ValueError
              /\ missing_deps # {} \/ ~remap_card_query(card.data, card_map).remapped
              /\ report' = Append(report, failed_item)
              /\ UNCHANGED <<target, card_map, calls, failures, next_id>>
           \/ /\ missing_deps = {} /\ remap_card_query(card.data, card_map).remapped
              /\ \E lookup_raises \in BOOLEAN, write_raises \in BOOLEAN,
                    failing_probe \in 0..(Len(target.cards) + 2) :
                 LET card_data == [remap_card_query(card.data, card_map).data
                                      EXCEPT !.collection_id = target_collection_id]
                     existing_card == find_existing_in_collection(target.cards, card.name,
                                          target_collection_id, lookup_raises)
                     skips == should_skip(existing_card)
                     updates == ~skips /\ should_overwrite(existing_card)
                     renames == ~skips /\ ~updates /\ should_rename(existing_card)
                     creates == existing_card = 0 \/ renames
                     probe_raises ==
                         renames /\ failing_probe = last_probe(target.cards, card.name,
                                                        target_collection_id, failing_probe)
                     payload == [card_data EXCEPT !.name =
                                    IF renames
                                    THEN generate_unique_name(target.cards, card.name,
                                             target_collection_id, failing_probe)
                                    ELSE card.name]
                     accepted == ~write_raises /\ target_accepts_card(payload)
                     raised == (IF lookup_raises THEN 1 ELSE 0)
                               + (IF probe_raises THEN 1 ELSE 0)
                               + (IF write_raises THEN 1 ELSE 0)
                 IN  /\ failing_probe # 0 => probe_raises
                     /\ write_raises => (creates \/ updates)
                     /\ failures + raised <= MaxFailures
                     /\ failures' = failures + raised
                     /\ \/ \* _handle_existing_card, no branch taken
                           /\ existing_card # 0 /\ ~skips /\ ~updates /\ ~renames
                           /\ UNCHANGED <<target, card_map, report, calls, next_id>>
                        \/ \* _handle_existing_card, skip
                           /\ skips
                           /\ card_map' = Put(card_map, card.id, existing_card)
                           /\ report' = Append(report, ImportReportItem("card", "skipped",
                                                card.id, existing_card, card.name))
                           /\ UNCHANGED <<target, calls, next_id>>
                        \/ \* _handle_existing_card, overwrite
                           /\ updates
                           /\ calls' = Append(calls, ApiCall("update_card", card.id,
                                          existing_card, payload.name, payload.collection_id,
                                          payload.source_table, payload.joins, <<>>, accepted))
                           /\ IF accepted
                              THEN /\ target' = [target EXCEPT !.cards =
                                                    update_card(@, existing_card, payload)]
                                   /\ card_map' = Put(card_map, card.id, existing_card)
                                   /\ report' = Append(report, ImportReportItem("card",
                                                  "updated", card.id, existing_card, card.name))
                              ELSE /\ report' = Append(report, failed_item)
                                   /\ UNCHANGED <<target, card_map>>
                           /\ UNCHANGED next_id
                        \/ \* _create_new_card, directly or after the rename
                           /\ creates
                           /\ calls' = Append(calls, ApiCall("create_card", card.id,
                                          IF accepted THEN next_id ELSE 0,
                                          payload.name, payload.collection_id,
                                          payload.source_table, payload.joins, <<>>, accepted))
                           /\ IF accepted
                              THEN /\ target' = [target EXCEPT !.cards =
                                                    Append(@, TargetCard(next_id, payload))]
                                   /\ card_map' = Put(card_map, card.id, next_id)
                                   /\ report' = Append(report, ImportReportItem("card",
                                                  "created", card.id, next_id, payload.name))
                                   /\ next_id' = next_id + 1
                              ELSE /\ report' = Append(report, failed_item)
                                   /\ UNCHANGED <<target, card_map, next_id>>
    /\ cursor' = cursor + 1
    /\ UNCHANGED <<sortVars, rewriteVars, exportVars, configVars, pc, exit_code, table_map, field_map, target_db_metadata,
                   collection_map, flat_target_collections, work, report_written>>

(***************************************************************************)
(* DashboardImporter                                                       *)
(***************************************************************************)
\* variant of ImportDashboardsBegin that does not wait for the loop over the
\* cards to end
ImportDashboardsEarly ==
    /\ pc = "cards"
    /\ LET ordered == sorted_by(manifest.dashboards,
                                [i \in DOMAIN manifest.dashboards |->
                                     manifest.dashboards[i].file_path])
       IN  work' = FilterSeq(ordered, {d \in SeqToSet(ordered) :
                                          ~d.archived \/ include_archived})
    /\ cursor' = 1
    /\ pc' = "dashboards"
    /\ UNCHANGED <<sortVars, rewriteVars, exportVars, configVars, target, exit_code, table_map, field_map,
                   target_db_metadata, collection_map, card_map,
                   flat_target_collections, report, report_written, calls,
                   failures, next_id>>

\* import_dashboards up to its loop: the order of the file paths, archived
\* dashboards passed over
ImportDashboardsBegin ==
    /\ pc = "cards"
    /\ cursor > Len(work)
    /\ LET ordered == sorted_by(manifest.dashboards,
                                [i \in DOMAIN manifest.dashboards |->
                                     manifest.dashboards[i].file_path])
       IN  work' = FilterSeq(ordered, {d \in SeqToSet(ordered) :
                                          ~d.archived \/ include_archived})
    /\ cursor' = 1
    /\ pc' = "dashboards"
    /\ UNCHANGED <<sortVars, rewriteVars, exportVars, configVars, target, exit_code, table_map, field_map,
                   target_db_metadata, collection_map, card_map,
                   flat_target_collections, report, report_written, calls,
                   failures, next_id>>

\* variant of prepare_dashcards that keeps the dashcard of a card that is
\* not in the card map, with its source card id
RECURSIVE keep_unmapped_dashcards(_)
keep_unmapped_dashcards(dashcards) ==
    IF dashcards = <<>> THEN <<>>
    ELSE LET source_card_id == Head(dashcards)
         IN  IF source_card_id \in DOMAIN card_map
             THEN <<card_map[source_card_id]>> \o keep_unmapped_dashcards(Tail(dashcards))
             ELSE <<source_card_id>> \o keep_unmapped_dashcards(Tail(dashcards))

\* _prepare_dashcards: card_id 0 is a text or heading dashcard; a dashcard
\* whose card is not in the card map is dropped
RECURSIVE prepare_dashcards(_)
prepare_dashcards(dashcards) ==
    IF dashcards = <<>> THEN <<>>
    ELSE LET source_card_id == Head(dashcards)
         IN  IF source_card_id = 0
             THEN <<0>> \o prepare_dashcards(Tail(dashcards))
             ELSE IF source_card_id \in DOMAIN card_map
             THEN <<card_map[source_card_id]>> \o prepare_dashcards(Tail(dashcards))
             ELSE prepare_dashcards(Tail(dashcards))

\* PUT /api/dashboard/:id with name and dashcards
update_dashboard(dashboards, id, name, dashcards) ==
    [i \in DOMAIN dashboards |->
        IF dashboards[i].id = id
        THEN [dashboards[i] EXCEPT !.name = name, !.dashcards = dashcards]
        ELSE dashboards[i]]

\* one turn of the loop of import_dashboards: _import_single_dashboard and
\* the except clause around it
ImportSingleDashboard ==
    /\ pc = "dashboards"
    /\ cursor <= Len(work)
    /\ \E lookup_raises \in BOOLEAN, create_raises \in BOOLEAN, update_raises \in BOOLEAN,
          failing_probe \in 0..(Len(target.dashboards) + 2) :
       LET dash == work[cursor]
           target_collection_id ==
               IF dash.collection_id # 0 THEN Get(collection_map, dash.collection_id) ELSE 0
           dashcards_to_import == prepare_dashcards(dash.dashcards)
           existing_dashboard == find_existing_in_collection(target.dashboards, dash.name,
                                     target_collection_id, lookup_raises)
           skips == should_skip(existing_dashboard)
           updates == ~skips /\ should_overwrite(existing_dashboard)
           renames == ~skips /\ ~updates /\ should_rename(existing_dashboard)
           \* (None, "created") is also what _handle_existing_dashboard falls to
           creates == ~skips /\ ~updates
           \* _handle_existing_dashboard, rename: new_name is logged and dropped
           new_name == generate_unique_name(target.dashboards, dash.name,
                                            target_collection_id, failing_probe)
           probe_raises ==
               renames /\ failing_probe = last_probe(target.dashboards, dash.name,
                                              target_collection_id, failing_probe)
           dashboard_name == dash.name
           dashboard_id == IF creates THEN next_id ELSE existing_dashboard
           action_taken == IF updates THEN "updated" ELSE "created"
           failed_item == ImportReportItem("dashboard", "failed", dash.id, 0, dash.name)
           create_call == ApiCall("create_dashboard", dash.id,
                                  IF create_raises THEN 0 ELSE next_id, dashboard_name,
                                  target_collection_id, NoRef, <<>>, <<>>, ~create_raises)
           update_call == ApiCall("update_dashboard", dash.id, dashboard_id, dashboard_name,
                                  target_collection_id, NoRef, <<>>, dashcards_to_import,
                                  ~update_raises)
           created == Append(target.dashboards,
                             [id |-> next_id, name |-> dashboard_name,
                              collection_id |-> target_collection_id, dashcards |-> <<>>])
           raised == (IF lookup_raises THEN 1 ELSE 0) + (IF probe_raises THEN 1 ELSE 0)
                     + (IF create_raises THEN 1 ELSE 0) + (IF update_raises THEN 1 ELSE 0)
       IN  /\ failing_probe # 0 => probe_raises
           /\ create_raises => creates
           /\ update_raises => (~skips /\ ~create_raises)
           /\ failures + raised <= MaxFailures
           /\ failures' = failures + raised
           /\ \/ /\ skips
                 /\ report' = Append(report, ImportReportItem("dashboard", "skipped",
                                      dash.id, existing_dashboard, dash.name))
                 /\ UNCHANGED <<target, calls, next_id>>
              \/ /\ creates /\ create_raises
                 /\ calls' = Append(calls, create_call)
                 /\ report' = Append(report, failed_item)
                 /\ UNCHANGED <<target, next_id>>
              \/ /\ ~skips /\ ~create_raises
                 /\ calls' = (IF creates THEN Append(calls, create_call) ELSE calls)
                                \o <<update_call>>
                 /\ next_id' = IF creates THEN next_id + 1 ELSE next_id
                 /\ IF update_raises
                    THEN /\ target' = [target EXCEPT !.dashboards =
                                          IF creates THEN created ELSE @]
                         /\ report' = Append(report, failed_item)
                    ELSE /\ target' = [target EXCEPT !.dashboards =
                                          update_dashboard(IF creates THEN created ELSE @,
                                              dashboard_id, dashboard_name,
                                              dashcards_to_import)]
                         /\ report' = Append(report, ImportReportItem("dashboard",
                                        action_taken, dash.id, dashboard_id, dashboard_name))
    /\ cursor' = cursor + 1
    /\ UNCHANGED <<sortVars, rewriteVars, exportVars, configVars, pc, exit_code, table_map, field_map, target_db_metadata,
                   collection_map, card_map, flat_target_collections, work,
                   report_written>>

(***************************************************************************)
(* PermissionsImporter.  A permission graph is a JSON object; the keys of  *)
(* an object are strings, in the order of the file.  The data graph holds  *)
(* "groups": group id -> database id -> permissions; the collection graph  *)
(* holds "groups": group id -> collection id or "root" -> permission.      *)
(***************************************************************************)
\* the largest source id that a key of a graph spells
MaxKeyId == 9

\* str.isdigit() on a key: the key spells a number
isdigit(key) == \E n \in 0..MaxKeyId : ToString(n) = key

\* int(key) of a key that spells a number
int(key) == CHOOSE n \in 0..MaxKeyId : ToString(n) = key

EmptyDict == DictValue(<<>>, <<>>)

\* d.get(key, {}) on a JSON object
dict_get(d, key) ==
    IF \E i \in DOMAIN d.keys : d.keys[i] = key
    THEN d.items[CHOOSE i \in DOMAIN d.keys : d.keys[i] = key]
    ELSE EmptyDict

\* d[key] = value: the value of an existing key is replaced where it
\* stands, a new key is added at the end
dict_set(d, key, value) ==
    IF \E i \in DOMAIN d.keys : d.keys[i] = key
    THEN [d EXCEPT !.items[CHOOSE i \in DOMAIN d.keys : d.keys[i] = key] = value]
    ELSE DictValue(Append(d.keys, key), Append(d.items, value))

\* the inner loop of _remap_permissions_graph over group_perms.items()
RECURSIVE remap_group_databases(_, _, _)
remap_group_databases(keys, items, remapped_group_perms) ==
    IF keys = <<>> THEN remapped_group_perms
    ELSE LET db_id_str == Head(keys)
             db_perms == Head(items)
             target_db_id == resolve_db_id(int(db_id_str))
             next == IF ~isdigit(db_id_str)
                     THEN dict_set(remapped_group_perms, db_id_str, db_perms)
                     ELSE IF target_db_id = 0 THEN remapped_group_perms
                     ELSE dict_set(remapped_group_perms, ToString(target_db_id), db_perms)
         IN  remap_group_databases(Tail(keys), Tail(items), next)

\* the inner loop of _remap_collection_permissions_graph
RECURSIVE remap_group_collections(_, _, _)
remap_group_collections(keys, items, remapped_group_perms) ==
    IF keys = <<>> THEN remapped_group_perms
    ELSE LET coll_id_str == Head(keys)
             coll_perms == Head(items)
             next == IF coll_id_str = "root"
                     THEN dict_set(remapped_group_perms, "root", coll_perms)
                     ELSE IF ~isdigit(coll_id_str)
                     THEN dict_set(remapped_group_perms, coll_id_str, coll_perms)
                     ELSE IF int(coll_id_str) \notin DOMAIN collection_map
                     THEN remapped_group_perms
                     ELSE dict_set(remapped_group_perms,
                                   ToString(collection_map[int(coll_id_str)]), coll_perms)
         IN  remap_group_collections(Tail(keys), Tail(items), next)

\* _remap_permissions_graph, given the "groups" object of the data graph;
\* group_perms.items() raises AttributeError on a value that is no object
remap_permissions_graph(groups) ==
    [raises |-> \E i \in DOMAIN groups.items : groups.items[i].kind # "dict",
     graph |-> DictValue(groups.keys,
                   [i \in DOMAIN groups.items |->
                       remap_group_databases(groups.items[i].keys, groups.items[i].items,
                                             EmptyDict)])]

\* _remap_collection_permissions_graph, given the collection graph of the
\* manifest: the loop runs over the keys of the graph itself
remap_collection_permissions_graph(collection_permissions) ==
    [raises |-> \E i \in DOMAIN collection_permissions.items :
                    collection_permissions.items[i].kind # "dict",
     graph |-> DictValue(collection_permissions.keys,
                   [i \in DOMAIN collection_permissions.items |->
                       remap_group_collections(collection_permissions.items[i].keys,
                                               collection_permissions.items[i].items,
                                               EmptyDict)])]

\* the permissions step of _perform_import: import_permissions when
\* apply_permissions is set and the manifest has permission groups
ImportPermissions ==
    /\ pc = "dashboards"
    /\ cursor > Len(work)
    /\ pc' = "summary"
    /\ LET groups == dict_get(manifest.permissions_graph, "groups")
           data == remap_permissions_graph(groups)
           coll == remap_collection_permissions_graph(manifest.collection_permissions_graph)
           failed_item == ImportReportItem("permissions", "failed", 0, 0, "Permissions")
           data_call(ok) == ApiCall("update_permissions_graph", 0, 0, "Data Permissions",
                                    0, NoRef, <<>>, <<>>, ok)
           coll_call(ok) == ApiCall("update_collection_permissions_graph", 0, 0,
                                    "Collection Permissions", 0, NoRef, <<>>, <<>>, ok)
           data_item == ImportReportItem("permissions", "success", 0, 0, "Data Permissions")
           coll_item == ImportReportItem("permissions", "success", 0, 0,
                                         "Collection Permissions")
           \* "if remapped_groups:" and "if remapped_collection_perms:"
           has_data == ~data.raises /\ data.graph.keys # <<>>
           has_coll == ~coll.raises /\ coll.graph.keys # <<>>
       IN  \/ /\ ~apply_permissions \/ manifest.permission_groups = {}
              /\ UNCHANGED <<target, report, calls, failures>>
           \/ /\ apply_permissions /\ manifest.permission_groups # {}
              /\ \E data_raises \in BOOLEAN, coll_raises \in BOOLEAN :
                 LET raised == (IF data_raises THEN 1 ELSE 0) + (IF coll_raises THEN 1 ELSE 0)
                     coll_reached == ~data.raises /\ ~data_raises
                     coll_runs == coll_reached /\ has_coll
                     \* an exception of the rewriters or of the client, caught by
                     \* "except Exception" around both graphs
                     caught == \/ data.raises \/ data_raises \/ coll_raises
                               \/ (coll_reached /\ coll.raises)
                 IN  /\ data_raises => has_data
                     /\ coll_raises => coll_runs
                     /\ failures + raised <= MaxFailures
                     /\ failures' = failures + raised
                     /\ calls' = calls
                            \o (IF has_data THEN <<data_call(~data_raises)>> ELSE <<>>)
                            \o (IF coll_runs THEN <<coll_call(~coll_raises)>> ELSE <<>>)
                     /\ report' = report
                            \o (IF has_data /\ ~data_raises THEN <<data_item>> ELSE <<>>)
                            \o (IF coll_runs /\ ~coll_raises THEN <<coll_item>> ELSE <<>>)
                            \o (IF caught THEN <<failed_item>> ELSE <<>>)
                     /\ target' = [target EXCEPT
                            !.permissions_graph =
                                IF has_data /\ ~data_raises
                                THEN DictValue(<<"groups">>, <<data.graph>>) ELSE @,
                            !.collection_permissions_graph =
                                IF coll_runs /\ ~coll_raises THEN coll.graph ELSE @]
    /\ UNCHANGED <<sortVars, rewriteVars, exportVars, configVars, exit_code, table_map, field_map, target_db_metadata,
                   collection_map, card_map, flat_target_collections, work, cursor,
                   report_written, next_id>>

(***************************************************************************)
(* The end of _perform_import: summary, report file, exit code.            *)
(***************************************************************************)
\* ImportReport.add counts an item under summary[entity_type + "s"] when
\* that key exists: collections, cards and dashboards
summary_failed ==
    Cardinality({i \in DOMAIN report :
                    /\ report[i].entity_type \in {"collection", "card", "dashboard"}
                    /\ report[i].status = "failed"})

Finish ==
    /\ pc = "summary"
    /\ report_written' = TRUE
    /\ exit_code' = IF summary_failed > 0 THEN 4 ELSE 0
    /\ pc' = "exit"
    /\ UNCHANGED <<sortVars, rewriteVars, exportVars, configVars, target, table_map, field_map, target_db_metadata,
                   collection_map, card_map, flat_target_collections, work, cursor,
                   report, calls, failures, next_id>>

(***************************************************************************)
(* The export packages, mapping files and target instances of the runs.    *)
(***************************************************************************)
SourceDatabases == (1 :> "db1") @@ (2 :> "db2")

SourceMetadata ==
    (1 :> <<[id |-> 7, name |-> "orders",
             fields |-> <<[id |-> 201, name |-> "category"],
                          [id |-> 202, name |-> "total"]>>]>>)
    @@ (2 :> <<[id |-> 8, name |-> "users",
                fields |-> <<[id |-> 203, name |-> "email"]>>]>>)

TargetDatabases == {100, 200}

TargetMetadata ==
    (100 :> <<[id |-> 70, name |-> "orders",
               fields |-> <<[id |-> 2010, name |-> "category"]>>]>>)
    @@ (200 :> <<[id |-> 80, name |-> "users",
                  fields |-> <<[id |-> 2030, name |-> "email"]>>]>>)

\* db_map.json files, each with the databases section of the manifest it is
\* used with: complete by id; by name; database 2 unmapped; database 2 mapped
\* to a database the target lacks, listed in the manifest or not, or
\* shadowing a valid mapping by name; a name mapping for an unlisted database
DbConfigs ==
    {[by_id |-> (1 :> 100) @@ (2 :> 200), by_name |-> <<>>, databases |-> SourceDatabases],
     [by_id |-> (1 :> 100), by_name |-> ("db2" :> 200), databases |-> SourceDatabases],
     [by_id |-> (1 :> 100), by_name |-> <<>>, databases |-> SourceDatabases],
     [by_id |-> (1 :> 100) @@ (2 :> 999), by_name |-> <<>>, databases |-> SourceDatabases],
     [by_id |-> (1 :> 100) @@ (2 :> 999), by_name |-> <<>>, databases |-> (1 :> "db1")],
     [by_id |-> (1 :> 100) @@ (2 :> 999), by_name |-> ("db2" :> 200),
      databases |-> SourceDatabases],
     [by_id |-> (1 :> 100), by_name |-> ("db2" :> 200), databases |-> (1 :> "db1")]}

DefaultDbConfig ==
    [by_id |-> (1 :> 100) @@ (2 :> 200), by_name |-> <<>>, databases |-> SourceDatabases]

\* ["=", ["field", <field id>, null], "X"]
FieldFilter(field_id) ==
    ListValue(<<StrValue("="),
                ListValue(<<StrValue("field"), IntValue(field_id), NullValue>>),
                StrValue("X")>>)

\* a card file with an inner query: a source-table, joins and a filter on one field
CardData(name, database_id, table_id, source_table, joins, filter_field) ==
    [name |-> name, collection_id |-> 0, database_id |-> database_id,
     query_database |-> database_id, table_id |-> table_id,
     source_table |-> source_table, joins |-> joins,
     clauses |-> ("filter" :> FieldFilter(filter_field)),
     native_sql |-> <<>>, template_tags |-> <<>>,
     result_metadata |-> <<>>, visualization_settings |-> NullValue]

\* the text "{{#<card id>-<slug>}}" in the SQL of a native query
SqlReference(card_id, slug) == [id |-> card_id, slug |-> slug]

\* "<card id>-<slug>", or "#<card id>-<slug>" with the leading hash
TagName(hash, card_id, slug) == [hash |-> hash, id |-> card_id, slug |-> slug]

\* an entry of template-tags with its key, its name, type and card-id
TemplateTag(hash, card_id, slug) ==
    [key |-> TagName(hash, card_id, slug), name |-> TagName(hash, card_id, slug),
     type |-> "card", card_id |-> card_id]

\* a card file with a native query whose SQL reads from one other card
NativeCardData(name, database_id, hash, card_id) ==
    [name |-> name, collection_id |-> 0, database_id |-> database_id,
     query_database |-> database_id, table_id |-> 0,
     source_table |-> NoRef, joins |-> <<>>, clauses |-> <<>>,
     native_sql |-> <<SqlReference(card_id, "filtered")>>,
     template_tags |-> <<TemplateTag(hash, card_id, "filtered")>>,
     result_metadata |-> <<>>, visualization_settings |-> NullValue]

\* models.Card, with the content of its card file
Card(id, collection_id, archived, data) ==
    [id |-> id, name |-> data.name, collection_id |-> collection_id,
     database_id |-> data.database_id, archived |-> archived,
     data |-> [data EXCEPT !.collection_id = collection_id]]

\* the cards an earlier run or a user left in a collection of the target:
\* "Q", "Q (1)" .. "Q (MaxTaken)" and "R"
ExistingCards(collection_id) ==
    LET names == <<"Q">> \o [n \in 1..MaxTaken |-> numbered_name("Q", n)] \o <<"R">>
    IN  [i \in DOMAIN names |->
            TargetCard(500 + i, [name |-> names[i], collection_id |-> collection_id,
                                 database_id |-> 100, table_id |-> 70,
                                 source_table |-> TableRef(70), joins |-> <<>>,
                                 clauses |-> ("filter" :> FieldFilter(2010)),
                                 native_sql |-> <<>>, template_tags |-> <<>>])]

\* the dashboards already in a collection of the target: "D", "D (1)" ..
ExistingDashboards(collection_id) ==
    LET names == <<"D">> \o [n \in 1..MaxTaken |-> numbered_name("D", n)]
    IN  [i \in DOMAIN names |->
            [id |-> 700 + i, name |-> names[i], collection_id |-> collection_id,
             dashcards |-> <<>>]]

ExistingCollections ==
    <<[id |-> 11, name |-> "Analytics", parent_id |-> 0],
      [id |-> 12, name |-> "Analytics (1)", parent_id |-> 0],
      [id |-> 13, name |-> "Sub", parent_id |-> 11]>>

SubSeqs(s) == {FilterSeq(s, keep) : keep \in SUBSET SeqToSet(s)}

Target(collections, cards, dashboards) ==
    [databases |-> TargetDatabases, metadata |-> TargetMetadata,
     collections |-> collections, cards |-> cards, dashboards |-> dashboards,
     permissions_graph |-> EmptyDict, collection_permissions_graph |-> EmptyDict]

\* paths are strings of the codes 1 = " ", 2 = "/", 3 = "A", 4 = "D", 5 = "E",
\* 6 = "S", in the order of their characters
ManifestCollections ==
    <<[id |-> 1, name |-> "Analytics", parent_id |-> 0, path |-> <<3>>],
      [id |-> 2, name |-> "Sub", parent_id |-> 1, path |-> <<3, 2, 6>>]>>

Dashboard(id, name, collection_id, archived, file_path, dashcards) ==
    [id |-> id, name |-> name, collection_id |-> collection_id, archived |-> archived,
     file_path |-> file_path, dashcards |-> dashcards]

\* the data permission graph as the export stores it: a revision and, for
\* each group, the permissions it holds on each database
PermissionsGraph(groups, database_ids) ==
    IF groups = {} THEN EmptyDict
    ELSE DictValue(<<"revision", "groups">>,
            <<IntValue(1),
              DictValue([i \in 1..Cardinality(groups) |-> ToString(SortList(SetToSeq(groups))[i])],
                  [i \in 1..Cardinality(groups) |->
                      DictValue([j \in 1..Cardinality(database_ids) |->
                                    ToString(SortList(SetToSeq(database_ids))[j])],
                                [j \in 1..Cardinality(database_ids) |-> StrValue("all")])])>>)

\* the collection permission graph as the export stores it: a revision
\* (when the answer of the source carries one) and, for each group, its
\* permission on the root collection and on each collection
CollectionPermissionsGraph(with_revision, groups, collection_ids) ==
    IF groups = {} THEN EmptyDict
    ELSE LET by_group ==
                 DictValue([i \in 1..Cardinality(groups) |-> ToString(SortList(SetToSeq(groups))[i])],
                     [i \in 1..Cardinality(groups) |->
                         DictValue(<<"root">> \o [j \in 1..Cardinality(collection_ids) |->
                                                     ToString(SortList(SetToSeq(collection_ids))[j])],
                                   <<StrValue("write")>>
                                       \o [j \in 1..Cardinality(collection_ids) |->
                                              StrValue("read")])])
         IN  IF with_revision
             THEN DictValue(<<"revision", "groups">>, <<IntValue(1), by_group>>)
             ELSE DictValue(<<"groups">>, <<by_group>>)

Scenario(strategy, archived, permissions, config, collections, cards, dashboards, groups, tgt) ==
    [strategy |-> strategy, include_archived |-> archived,
     apply_permissions |-> permissions,
     db_map |-> [by_id |-> config.by_id, by_name |-> config.by_name],
     manifest |-> [databases |-> config.databases,
                   database_metadata |-> SourceMetadata,
                   collections |-> collections, cards |-> cards,
                   dashboards |-> dashboards,
                   permission_groups |-> groups,
                   permissions_graph |-> PermissionsGraph(groups, DOMAIN SourceDatabases),
                   collection_permissions_graph |->
                       CollectionPermissionsGraph(TRUE, groups,
                           {collections[i].id : i \in DOMAIN collections})],
     target |-> tgt]

Strategies == {"skip", "overwrite", "rename"}

\* database mappings of every kind, on a package of two plain cards
ValidationScenarios ==
    {Scenario("skip", archived, FALSE, config, <<>>,
              <<Card(1, 0, FALSE, CardData("Q", 1, 7, TableRef(7), <<>>, 201)),
                Card(2, 0, archived2, CardData("R", 2, 8, TableRef(8), <<>>, 203))>>,
              <<>>, {}, Target(<<>>, <<>>, <<>>)) :
        archived \in BOOLEAN, archived2 \in BOOLEAN, config \in DbConfigs}

\* two cards in the root collection, in either manifest order, referring to
\* tables, to each other or to a card that is not in the package, against a
\* target that may already hold cards of their names; include_archived is
\* varied when the package has an archived card, and the join on a card
\* when the source-table is a table
CardScenarios ==
    {Scenario(x.strategy, x.archived, FALSE, DefaultDbConfig, <<>>,
              LET c1 == Card(1, 0, FALSE, CardData("Q", 1, 7, x.source1, x.joins1, 201))
                  c2 == Card(2, 0, x.archived2, CardData(x.name2, 2, 8, x.source2, <<>>, 203))
              IN  IF x.swap THEN <<c2, c1>> ELSE <<c1, c2>>,
              <<Dashboard(1, "D", 0, FALSE, <<4>>, <<1, 2, 0>>)>>,
              {}, Target(<<>>, x.existing, <<>>)) :
        x \in {y \in [strategy : Strategies, archived : BOOLEAN, archived2 : BOOLEAN,
                      source1 : {TableRef(7), CardRef(2), CardRef(9)},
                      joins1 : {<<>>, <<CardRef(2)>>},
                      source2 : {TableRef(8), CardRef(1)},
                      name2 : {"Q", "R"}, swap : BOOLEAN,
                      existing : SubSeqs(ExistingCards(0))] :
                 /\ y.archived => y.archived2
                 /\ y.joins1 # <<>> => y.source1 = TableRef(7)}}

\* a package with nested collections, cards inside them, an archived and a
\* live dashboard and permission groups, against a target that may already
\* hold collections and dashboards of the same names; the manifest lists the
\* collections child first only against a target without dashboards
\* the collection permission graph lacks its revision only in packages
\* imported with permissions into a target without collections and dashboards
CollectionScenarios ==
    {[Scenario(x.strategy, x.archived, x.permissions, DefaultDbConfig,
              IF x.swap THEN <<ManifestCollections[2], ManifestCollections[1]>>
              ELSE ManifestCollections,
              <<Card(1, 2, FALSE, CardData("Q", 1, 7, TableRef(7), <<>>, 201)),
                Card(2, 1, FALSE, CardData("R", 2, 8, CardRef(1), <<>>, 203))>>,
              <<Dashboard(1, "D", x.dash_collection, FALSE, <<4>>, <<1, 2, 0>>),
                Dashboard(2, "E", 0, TRUE, <<3>>, <<1>>)>>,
              {1},
              Target(x.collections, <<>>, x.dashboards))
          EXCEPT !.manifest.collection_permissions_graph =
                     CollectionPermissionsGraph(x.revision, {1}, {1, 2})] :
        x \in {y \in [strategy : Strategies, archived : BOOLEAN, permissions : BOOLEAN,
                      revision : BOOLEAN,
                      swap : BOOLEAN, dash_collection : {0, 1},
                      collections : SubSeqs(ExistingCollections),
                      dashboards : SubSeqs(ExistingDashboards(0))
                                   \cup SubSeqs(ExistingDashboards(11))] :
                 /\ y.swap => y.dashboards = <<>> /\ ~y.permissions
                 /\ ~y.revision => /\ y.permissions /\ ~y.archived /\ y.dash_collection = 0
                                   /\ y.collections = <<>> /\ y.dashboards = <<>>
                 /\ \A i \in DOMAIN y.collections :
                        y.collections[i].parent_id # 0 =>
                            \E j \in DOMAIN y.collections :
                                y.collections[j].id = y.collections[i].parent_id
                 /\ \A i \in DOMAIN y.dashboards :
                        y.dashboards[i].collection_id # 0 =>
                            \E j \in DOMAIN y.collections :
                                y.collections[j].id = y.dashboards[i].collection_id}}

\* a native card whose SQL reads from the other card of the package or from
\* a card that is not in the package
NativeScenarios ==
    {Scenario(strategy, FALSE, FALSE, DefaultDbConfig, <<>>,
              <<Card(1, 0, FALSE, NativeCardData("Q", 1, TRUE, card_id)),
                Card(2, 0, FALSE, CardData("R", 2, 8, TableRef(8), <<>>, 203))>>,
              <<>>, {}, Target(<<>>, existing, <<>>)) :
        strategy \in Strategies, card_id \in {2, 9},
        existing \in SubSeqs(ExistingCards(0))}

\* packages of collections only, listed as the export traversal records
\* them (a collection, then its subtree): a top-level collection "A D"
\* whose path lies between "A" and "A/S", and two top-level collections
\* whose names give the same path "A", each with a child "S"
ForestCollections ==
    { <<[id |-> 1, name |-> "A", parent_id |-> 0, path |-> <<3>>],
        [id |-> 2, name |-> "S", parent_id |-> 1, path |-> <<3, 2, 6>>],
        [id |-> 3, name |-> "A D", parent_id |-> 0, path |-> <<3, 1, 4>>]>>,
      <<[id |-> 1, name |-> "A", parent_id |-> 0, path |-> <<3>>],
        [id |-> 2, name |-> "S", parent_id |-> 1, path |-> <<3, 2, 6>>],
        [id |-> 3, name |-> "A", parent_id |-> 0, path |-> <<3>>],
        [id |-> 4, name |-> "S", parent_id |-> 3, path |-> <<3, 2, 6>>]>> }

ForestScenarios ==
    {Scenario(strategy, FALSE, FALSE, DefaultDbConfig, collections, <<>>, <<>>, {},
              Target(<<>>, <<>>, <<>>)) :
        strategy \in {"skip", "overwrite"}, collections \in ForestCollections}

Scenarios ==
    ValidationScenarios \cup CardScenarios \cup CollectionScenarios \cup NativeScenarios
    \cup ForestScenarios

(***************************************************************************)
(* The exporter: CardExporter, DashboardExporter, CollectionExporter.      *)
(*                                                                         *)
(* A source card is the payload get_card returns: id, name, collection_id, *)
(* has_dataset_query (whether "dataset_query" is present and non-empty),   *)
(* database_id (0 when neither database_id nor dataset_query.database is   *)
(* set), the inner query's source_table and joins, and template_tags: the  *)
(* card ids of the native query's template tags of type "card".            *)
(* The state of one walk is [exported, cards, dashboards, failed,          *)
(* warnings]: _exported_cards, manifest.cards, manifest.dashboards,        *)
(* whether an API call raised during the walk, and the number of           *)
(* "Circular dependency detected" warnings logged.                         *)
(***************************************************************************)
\* client.get_card raises MetabaseAPIError: the source has no such card
\* (404), or the call is one of those that fail in this step
get_card_raises(card_id, bad) ==
    card_id \notin DOMAIN source.cards \/ card_id \in bad

\* CardExporter.extract_card_dependencies
CardExporter_extract_card_dependencies(card_data) ==
    (IF card_data.source_table.kind = "card" THEN {card_data.source_table.id} ELSE {})
    \cup {card_data.joins[i].id :
            i \in {j \in DOMAIN card_data.joins : card_data.joins[j].kind = "card"}}

\* the base path of a card fetched as a dependency
dependency_base_path(card_data, path_map) ==
    IF card_data.collection_id # 0 /\ card_data.collection_id \in DOMAIN path_map
    THEN path_map[card_data.collection_id]
    ELSE "dependencies"

\* CardExporter.export_card, called with the fetched card_data
export_card(st, card_id, base_path, card_data) ==
    IF card_id \in st.exported THEN st
    ELSE IF ~card_data.has_dataset_query THEN st
    ELSE IF card_data.database_id = 0 THEN st
    ELSE [st EXCEPT
            !.cards = Append(@, [id |-> card_id, name |-> card_data.name,
                                 collection_id |-> card_data.collection_id,
                                 database_id |-> card_data.database_id,
                                 base_path |-> base_path]),
            !.exported = @ \cup {card_id}]

RECURSIVE export_card_with_dependencies(_, _, _, _, _, _)
RECURSIVE export_dependencies(_, _, _, _, _)

\* variant of export_card_with_dependencies that writes the card before
\* it walks its dependencies
export_card_before_dependencies(st, card_id, base_path, dependency_chain, path_map, bad) ==
    IF card_id \in st.exported THEN st
    ELSE IF Contains(dependency_chain, card_id) THEN [st EXCEPT !.warnings = @ + 1]
    ELSE IF get_card_raises(card_id, bad) THEN [st EXCEPT !.failed = TRUE]
    ELSE LET card_data == source.cards[card_id]
             dependencies == CardExporter_extract_card_dependencies(card_data)
             current_chain == Append(dependency_chain, card_id)
             written == export_card(st, card_id, base_path, card_data)
         IN  export_dependencies(written, SortList(SetToSeq(dependencies)),
                                 current_chain, path_map, bad)

\* CardExporter.export_card_with_dependencies
export_card_with_dependencies(st, card_id, base_path, dependency_chain, path_map, bad) ==
    IF card_id \in st.exported THEN st
    ELSE IF Contains(dependency_chain, card_id) THEN [st EXCEPT !.warnings = @ + 1]
    ELSE IF get_card_raises(card_id, bad) THEN [st EXCEPT !.failed = TRUE]
    ELSE LET card_data == source.cards[card_id]
             dependencies == CardExporter_extract_card_dependencies(card_data)
             current_chain == Append(dependency_chain, card_id)
             after == export_dependencies(st, SortList(SetToSeq(dependencies)),
                                          current_chain, path_map, bad)
         IN  export_card(after, card_id, base_path, card_data)

\* the loop "for dep_id in sorted(dependencies)" of export_card_with_dependencies
export_dependencies(st, deps, current_chain, path_map, bad) ==
    IF deps = <<>> THEN st
    ELSE LET dep_id == Head(deps)
             after ==
                 IF dep_id \in st.exported THEN st
                 ELSE IF get_card_raises(dep_id, bad) THEN [st EXCEPT !.failed = TRUE]
                 ELSE export_card_with_dependencies(st, dep_id,
                          dependency_base_path(source.cards[dep_id], path_map),
                          current_chain, path_map, bad)
         IN  export_dependencies(after, Tail(deps), current_chain, path_map, bad)

\* the loop "for card_id in card_ids" of DashboardExporter.export_dashboard
RECURSIVE export_dashboard_cards(_, _, _, _)
export_dashboard_cards(st, card_ids, path_map, bad) ==
    IF card_ids = <<>> THEN st
    ELSE LET card_id == Head(card_ids)
             after ==
                 IF card_id \in st.exported THEN st
                 ELSE IF get_card_raises(card_id, bad) THEN [st EXCEPT !.failed = TRUE]
                 ELSE export_card_with_dependencies(st, card_id,
                          dependency_base_path(source.cards[card_id], path_map),
                          <<>>, path_map, bad)
         IN  export_dashboard_cards(after, Tail(card_ids), path_map, bad)

\* DashboardExporter.export_dashboard; card_ids are the card ids of the
\* dashcards followed by those of the parameters' values_source_config
export_dashboard(st, dashboard_id, base_path, path_map, bad, dashboard_raises) ==
    IF dashboard_raises THEN [st EXCEPT !.failed = TRUE]
    ELSE LET dashboard_data == source.dashboards[dashboard_id]
             after == export_dashboard_cards(st, dashboard_data.card_ids, path_map, bad)
         IN  [after EXCEPT
                !.dashboards = Append(@, [id |-> dashboard_id,
                                          name |-> dashboard_data.name,
                                          collection_id |-> dashboard_data.collection_id,
                                          ordered_cards |-> dashboard_data.card_ids,
                                          base_path |-> base_path])]

\* the loop "for item in items" of CollectionExporter._process_collection_items
RECURSIVE process_items(_, _, _, _, _, _)
process_items(st, items, base_path, path_map, bad, dashboard_raises) ==
    IF items = <<>> THEN st
    ELSE LET item == Head(items)
             after ==
                 IF item.model \in {"card", "dataset"}
                 THEN export_card_with_dependencies(st, item.id, base_path, <<>>,
                                                    path_map, bad)
                 ELSE IF item.model = "dashboard" /\ export_config.include_dashboards
                 THEN export_dashboard(st, item.id, base_path, path_map, bad,
                                       dashboard_raises)
                 ELSE st
         IN  process_items(after, Tail(items), base_path, path_map, bad, dashboard_raises)

\* CollectionExporter._process_collection_items
process_collection_items(st, collection_id, base_path, path_map, items_raise, bad, dashboard_raises) ==
    IF items_raise THEN [st EXCEPT !.failed = TRUE]
    ELSE process_items(st, source.items[collection_id], base_path, path_map, bad,
                       dashboard_raises)

\* CollectionExporter._traverse_collections as the list of its visits: the
\* tree is held as rows with a parent_id; a personal collection that is not
\* a chosen root is passed over together with its children
RECURSIVE traverse_collections(_, _, _, _)
traverse_collections(rows, kids, parent_path, depth) ==
    IF kids = <<>> \/ depth = 0 THEN <<>>
    ELSE LET coll == Head(kids)
             personal == /\ coll.personal_owner_id # 0
                         /\ coll.id \notin export_config.root_collection_ids
             current_path == IF parent_path = "" THEN coll.name
                             ELSE parent_path \o "/" \o coll.name
             children == FilterSeq(rows, {r \in SeqToSet(rows) : r.parent_id = coll.id})
             visit == [id |-> coll.id, name |-> coll.name, parent_id |-> coll.parent_id,
                       personal_owner_id |-> coll.personal_owner_id,
                       path |-> current_path]
         IN  (IF personal THEN <<>>
              ELSE <<visit>> \o traverse_collections(rows, children, current_path, depth - 1))
             \o traverse_collections(rows, Tail(kids), parent_path, depth)

\* the entry the tree gives for the root collection (id "root"), when it
\* gives one: its items are exported under "collections"
RootVisit ==
    [id |-> 0, name |-> "root", parent_id |-> 0, personal_owner_id |-> 0,
     path |-> "collections"]

\* the tree run_export walks: the top-level collections, restricted to
\* root_collection_ids when some are given
collection_tree ==
    LET top == FilterSeq(source.collections,
                         {r \in SeqToSet(source.collections) : r.parent_id = 0})
        roots == export_config.root_collection_ids
    IN  IF roots = {} THEN top
        ELSE FilterSeq(top, {r \in SeqToSet(top) : r.id \in roots})

\* run_export up to the traversal: export_databases, the tree, its filter
ExportBegin ==
    /\ export_pc = "start"
    /\ \E raises \in BOOLEAN :
          /\ raises => export_failures < MaxFailures
          /\ LET with_root == source.tree_has_root /\ export_config.root_collection_ids = {}
                 visits == (IF with_root THEN <<RootVisit>> ELSE <<>>)
                           \o traverse_collections(source.collections, collection_tree, "",
                                                   Len(source.collections))
             IN  IF raises
                 THEN /\ export_pc' = "exit"
                      /\ export_exit_code' = 1
                      /\ export_failures' = export_failures + 1
                      /\ UNCHANGED <<export_manifest, export_work>>
                 ELSE /\ export_manifest' = [export_manifest EXCEPT
                                               !.databases = source.databases]
                      /\ export_failures' = export_failures
                      /\ IF collection_tree = <<>> /\ ~with_root
                         THEN /\ export_pc' = "exit"
                              /\ export_exit_code' = 0
                              /\ export_work' = <<>>
                         ELSE /\ export_pc' = "collections"
                              /\ export_exit_code' = export_exit_code
                              /\ export_work' = visits
    /\ export_cursor' = 1
    /\ UNCHANGED <<sortVars, rewriteVars, importVars, source, export_config, manifest_written,
                   collection_path_map, exported_cards, cycle_warnings>>

\* one pass of the loop of _traverse_collections: the collection is
\* recorded, then its items are exported
ExportCollection ==
    /\ export_pc = "collections"
    /\ export_cursor <= Len(export_work)
    /\ \E items_raise \in BOOLEAN, dashboard_raises \in BOOLEAN,
          bad \in {b \in SUBSET DOMAIN source.cards : Cardinality(b) <= 1} :
          LET coll == export_work[export_cursor]
              is_root == coll.id = 0
              processed == ~is_root /\ coll.id \in DOMAIN collection_path_map
              path_map == IF is_root THEN collection_path_map
                          ELSE Put(collection_path_map, coll.id, coll.path)
              st0 == [exported |-> exported_cards, cards |-> export_manifest.cards,
                      dashboards |-> export_manifest.dashboards, failed |-> FALSE,
                      warnings |-> cycle_warnings]
              st1 == process_collection_items(st0, coll.id, coll.path, path_map,
                                              items_raise, bad, dashboard_raises)
              st2 == process_collection_items(st0, coll.id, coll.path, path_map,
                                              FALSE, {}, FALSE)
              injected == items_raise \/ dashboard_raises \/ bad # {}
          IN  /\ injected => /\ export_failures < MaxFailures
                             /\ ~processed
                             /\ (items_raise => ~dashboard_raises /\ bad = {})
                             /\ (dashboard_raises => bad = {})
                             /\ st1 # st2
              /\ IF processed
                 THEN UNCHANGED <<export_manifest, collection_path_map, exported_cards,
                                  cycle_warnings, export_failures>>
                 ELSE /\ collection_path_map' = path_map
                      /\ export_manifest' = [export_manifest EXCEPT
                            !.collections =
                                IF is_root THEN @
                                ELSE Append(@, [id |-> coll.id, name |-> coll.name,
                                                parent_id |-> coll.parent_id,
                                                personal_owner_id |-> coll.personal_owner_id,
                                                path |-> coll.path]),
                            !.cards = st1.cards,
                            !.dashboards = st1.dashboards]
                      /\ exported_cards' = st1.exported
                      /\ cycle_warnings' = st1.warnings
                      /\ export_failures' = IF st1.failed THEN export_failures + 1
                                            ELSE export_failures
    /\ export_cursor' = export_cursor + 1
    /\ UNCHANGED <<sortVars, rewriteVars, importVars, source, export_config, export_pc,
                   export_exit_code, manifest_written, export_work>>

\* run_export after the traversal: permissions when asked for, the
\* manifest file, exit 0
ExportFinish ==
    /\ export_pc = "collections"
    /\ export_cursor > Len(export_work)
    /\ \E raises \in BOOLEAN :
          /\ raises => export_config.include_permissions /\ export_failures < MaxFailures
          /\ export_manifest' = [export_manifest EXCEPT
                !.permission_groups =
                    IF export_config.include_permissions /\ ~raises
                    THEN source.permission_groups ELSE @]
          /\ export_failures' = IF raises THEN export_failures + 1 ELSE export_failures
    /\ manifest_written' = TRUE
    /\ export_pc' = "exit"
    /\ export_exit_code' = 0
    /\ UNCHANGED <<sortVars, rewriteVars, importVars, source, export_config, collection_path_map,
                   exported_cards, cycle_warnings, export_work, export_cursor>>

(***************************************************************************)
(* Specification Spec: one import run (run_import with dry_run off) on     *)
(* each scenario, with up to MaxFailures API calls raising.                *)
(***************************************************************************)
SortIdle ==
    /\ sortCards = <<>>
    /\ sortDeps = <<>>
    /\ sortResult = <<>>
    /\ sortPc = "idle"

ImportIdle ==
    /\ conflict_strategy = "skip"
    /\ include_archived = FALSE
    /\ apply_permissions = FALSE
    /\ db_map = [by_id |-> <<>>, by_name |-> <<>>]
    /\ manifest = <<>>
    /\ target = <<>>
    /\ pc = "idle"
    /\ exit_code = -1
    /\ table_map = EmptyMap
    /\ field_map = EmptyMap
    /\ target_db_metadata = {}
    /\ collection_map = EmptyMap
    /\ card_map = EmptyMap
    /\ flat_target_collections = <<>>
    /\ work = <<>>
    /\ cursor = 1
    /\ report = <<>>
    /\ report_written = FALSE
    /\ calls = <<>>
    /\ failures = 0
    /\ next_id = FirstNewId

\* the manifest MetabaseExporter._initialize_manifest builds
EmptyManifest ==
    [databases |-> <<>>, collections |-> <<>>, cards |-> <<>>, dashboards |-> <<>>,
     permission_groups |-> <<>>]

ExportIdle ==
    /\ source = <<>>
    /\ export_config = <<>>
    /\ export_pc = "idle"
    /\ export_exit_code = -1
    /\ export_manifest = EmptyManifest
    /\ manifest_written = FALSE
    /\ collection_path_map = EmptyMap
    /\ exported_cards = {}
    /\ cycle_warnings = 0
    /\ export_work = <<>>
    /\ export_cursor = 1
    /\ export_failures = 0

RewriteIdle ==
    /\ rewrite_pc = "idle"
    /\ rewrite_input = <<>>
    /\ card_map_items = <<>>
    /\ rewrite_output = <<>>

\* the state after MetabaseImporter.__init__ and _load_export_package
Init ==
    /\ \E sc \in Scenarios :
          /\ conflict_strategy = sc.strategy
          /\ include_archived = sc.include_archived
          /\ apply_permissions = sc.apply_permissions
          /\ db_map = sc.db_map
          /\ manifest = sc.manifest
          /\ target = sc.target
    /\ pc = "validate"
    /\ exit_code = -1
    /\ table_map = EmptyMap
    /\ field_map = EmptyMap
    /\ target_db_metadata = {}
    /\ collection_map = EmptyMap
    /\ card_map = EmptyMap
    /\ flat_target_collections = <<>>
    /\ work = <<>>
    /\ cursor = 1
    /\ report = <<>>
    /\ report_written = FALSE
    /\ calls = <<>>
    /\ failures = 0
    /\ next_id = FirstNewId
    /\ SortIdle
    /\ ExportIdle
    /\ RewriteIdle

Next ==
    \/ ValidateAll
    \/ BuildMappingsForDb
    \/ ImportCollectionsBegin
    \/ ImportSingleCollection
    \/ ImportCardsBegin
    \/ ImportSingleCard
    \/ ImportDashboardsBegin
    \/ ImportSingleDashboard
    \/ ImportPermissions
    \/ Finish

Spec == Init /\ [][Next]_vars

(***************************************************************************)
(* Specification SpecSort: the sort applied to every list of NumSortCards  *)
(* cards, in every list order, each card referencing up to MaxRefs other   *)
(* cards (cards of the list, or a card outside the list).                  *)
(***************************************************************************)
SortInit ==
    /\ sortCards \in Orderings(SortIds)
    /\ sortDeps \in [SortIds -> {d \in SUBSET RefIds : Cardinality(d) <= MaxRefs}]
    /\ \A c \in SortIds : c \notin sortDeps[c]
    /\ sortResult = <<>>
    /\ sortPc = "input"
    /\ ImportIdle
    /\ ExportIdle
    /\ RewriteIdle

SortCall ==
    /\ sortPc = "input"
    /\ sortResult' = topological_sort_cards(sortCards, sortDeps)
    /\ sortPc' = "sorted"
    /\ UNCHANGED <<sortCards, sortDeps>>
    /\ UNCHANGED <<importVars, exportVars, rewriteVars>>

SortNext == SortCall

SpecSort == SortInit /\ [][SortNext]_vars

(***************************************************************************)
(* Specification SpecExport: one export run on each source instance of a   *)
(* small family.  Collections: A (1) with child B (2), C (3), and the      *)
(* personal collection P (4).  Cards 1..4 lie in A, B, C and in P or the   *)
(* root collection; dashboard 20 lies in A.  The cards reference one       *)
(* another through source-table, joins and template tags; card 1 may       *)
(* reference card 9, which the source does not have.                       *)
(***************************************************************************)
SourceCollections ==
    << [id |-> 1, name |-> "A", parent_id |-> 0, personal_owner_id |-> 0],
       [id |-> 2, name |-> "B", parent_id |-> 1, personal_owner_id |-> 0],
       [id |-> 3, name |-> "C", parent_id |-> 0, personal_owner_id |-> 0],
       [id |-> 4, name |-> "P", parent_id |-> 0, personal_owner_id |-> 7] >>

SourceCard(id, collection_id, has_dataset_query, database_id, source_table, joins, template_tags) ==
    [id |-> id, name |-> "card" \o ToString(id), collection_id |-> collection_id,
     has_dataset_query |-> has_dataset_query, database_id |-> database_id,
     source_table |-> source_table, joins |-> joins, template_tags |-> template_tags]

SourceInstances ==
    { [databases |-> SourceDatabases,
       collections |-> SourceCollections,
       tree_has_root |-> tree_has_root,
       items |-> (0 :> (IF home4 = 0 THEN <<[model |-> "card", id |-> 4]>> ELSE <<>>))
              @@ (1 :> <<[model |-> "card", id |-> 1], [model |-> "dashboard", id |-> 20]>>)
              @@ (2 :> <<[model |-> "dataset", id |-> 2]>>)
              @@ (3 :> <<[model |-> "card", id |-> 3]>>)
              @@ (4 :> (IF home4 = 4 THEN <<[model |-> "card", id |-> 4]>> ELSE <<>>)),
       cards |-> (1 :> SourceCard(1, 1, TRUE, 1, st1, j1, {}))
              @@ (2 :> SourceCard(2, 2, TRUE, 1, st2, <<>>, tags2))
              @@ (3 :> SourceCard(3, 3, TRUE, db3, st3, <<>>, {}))
              @@ (4 :> SourceCard(4, home4, query4, 2, TableRef(10), <<>>, {})),
       dashboards |-> (20 :> [name |-> "D", collection_id |-> 1, card_ids |-> <<3, 4>>]),
       permission_groups |-> <<[id |-> 1, name |-> "All Users"]>>] :
      tree_has_root \in BOOLEAN, home4 \in {0, 4},
      st1 \in {TableRef(10), CardRef(2), CardRef(4), CardRef(9)},
      j1 \in {<<>>, <<CardRef(3)>>},
      st2 \in {TableRef(10), CardRef(1), CardRef(3)},
      tags2 \in {{}, {3}},
      st3 \in {TableRef(10), CardRef(4)},
      db3 \in {0, 1},
      query4 \in BOOLEAN }

\* sources in which the top-level collection 3 has the name of the
\* top-level collection 1, with cards that reference tables only
SiblingInstances ==
    { [databases |-> SourceDatabases,
       collections |-> [SourceCollections EXCEPT ![3].name = "A"],
       tree_has_root |-> tree_has_root,
       items |-> (0 :> <<>>)
              @@ (1 :> <<[model |-> "card", id |-> 1]>>)
              @@ (2 :> <<[model |-> "dataset", id |-> 2]>>)
              @@ (3 :> <<[model |-> "card", id |-> 3]>>)
              @@ (4 :> <<[model |-> "card", id |-> 4]>>),
       cards |-> (1 :> SourceCard(1, 1, TRUE, 1, TableRef(10), <<>>, {}))
              @@ (2 :> SourceCard(2, 2, TRUE, 1, TableRef(10), <<>>, {}))
              @@ (3 :> SourceCard(3, 3, TRUE, 1, TableRef(10), <<>>, {}))
              @@ (4 :> SourceCard(4, 4, TRUE, 2, TableRef(10), <<>>, {})),
       dashboards |-> (20 :> [name |-> "D", collection_id |-> 1, card_ids |-> <<3, 4>>]),
       permission_groups |-> <<[id |-> 1, name |-> "All Users"]>>] :
      tree_has_root \in BOOLEAN }

ExportConfigs ==
    [root_collection_ids : {{}, {1}, {4}},
     include_dashboards : BOOLEAN,
     include_permissions : BOOLEAN]

\* the state after MetabaseExporter.__init__
ExportInit ==
    /\ source \in SourceInstances \cup SiblingInstances
    /\ export_config \in ExportConfigs
    /\ export_pc = "start"
    /\ export_exit_code = -1
    /\ export_manifest = EmptyManifest
    /\ manifest_written = FALSE
    /\ collection_path_map = EmptyMap
    /\ exported_cards = {}
    /\ cycle_warnings = 0
    /\ export_work = <<>>
    /\ export_cursor = 1
    /\ export_failures = 0
    /\ SortIdle
    /\ ImportIdle
    /\ RewriteIdle

ExportNext ==
    \/ ExportBegin
    \/ ExportCollection
    \/ ExportFinish

SpecExport == ExportInit /\ [][ExportNext]_vars

(***************************************************************************)
(* The parameter rewriters of DashboardImporter.  A parameter mapping of a *)
(* dashcard is [card_id, target]; a dashboard parameter is its             *)
(* values_source_config [card_id, value_field].                            *)
(***************************************************************************)
\* manifest_card.database_id of the first manifest card with that id, 0 if none
manifest_card_database(card_id) ==
    LET hits == {i \in DOMAIN manifest.cards : manifest.cards[i].id = card_id}
    IN  IF hits = {} THEN 0
        ELSE manifest.cards[CHOOSE i \in hits : \A j \in hits : i <= j].database_id

\* DashboardImporter._remap_parameter_mappings
remap_parameter_mappings(parameter_mappings, source_card_id) ==
    LET dashcard_db_id ==
            IF source_card_id # 0 THEN manifest_card_database(source_card_id) ELSE 0
    IN  [i \in DOMAIN parameter_mappings |->
            [parameter_mappings[i] EXCEPT
                !.card_id = IF @ \in DOMAIN card_map THEN card_map[@] ELSE @,
                !.target = IF dashcard_db_id # 0
                           THEN remap_field_ids_recursively(@, dashcard_db_id)
                           ELSE @]]

\* the loop over card_map.items() of _remap_parameters: the first source id
\* whose target id is that card id, 0 if none
original_card_id(card_id) ==
    LET hits == {i \in DOMAIN card_map_items : card_map[card_map_items[i]] = card_id}
    IN  IF hits = {} THEN 0
        ELSE card_map_items[CHOOSE i \in hits : \A j \in hits : i <= j]

\* DashboardImporter._remap_parameters
remap_parameters(parameters) ==
    [i \in DOMAIN parameters |->
        LET values_config == parameters[i]
            card_id == IF values_config.card_id \in DOMAIN card_map
                       THEN card_map[values_config.card_id]
                       ELSE values_config.card_id
            original == IF card_id # 0 THEN original_card_id(card_id) ELSE 0
            found == original # 0 /\ \E k \in DOMAIN manifest.cards :
                                        manifest.cards[k].id = original
        IN  [card_id |-> card_id,
             value_field |->
                 IF found
                 THEN remap_field_ids_recursively(values_config.value_field,
                                                  manifest_card_database(original))
                 ELSE values_config.value_field]]


(***************************************************************************)
(* Specification SpecRewrite: the rewriters applied to one input under a   *)
(* resolver state that a finished mapping phase and card phase leave:      *)
(* remap_card_query on a card payload, and then on its own output;         *)
(* _remap_parameter_mappings on a dashcard; _remap_parameters on the       *)
(* parameters of a dashboard.                                              *)
(***************************************************************************)
\* database mappings: complete by id; database 2 by name; database 2
\* unmapped; database 1 mapped to a target database whose id, 2, is also
\* the id of a source database
RewriteDbConfigs ==
    {DefaultDbConfig,
     [by_id |-> (1 :> 100), by_name |-> ("db2" :> 200), databases |-> SourceDatabases],
     [by_id |-> (1 :> 100), by_name |-> <<>>, databases |-> SourceDatabases],
     [by_id |-> (1 :> 2) @@ (2 :> 200), by_name |-> <<>>, databases |-> SourceDatabases]}

\* the target numbers its tables and fields on its own: target database 2
\* holds "orders" under ids that the source uses for other tables and fields
RewriteTargetMetadata ==
    TargetMetadata
    @@ (2 :> <<[id |-> 8, name |-> "orders",
                fields |-> <<[id |-> 203, name |-> "category"],
                             [id |-> 201, name |-> "total"]>>]>>)

\* card maps with their insertion order: empty; all cards created; only
\* card 1 installed; target ids that are also source ids, of installed
\* cards or of cards that were not installed; two cards skipped onto the
\* same existing card, in either order
RewriteCardMaps ==
    {[map |-> EmptyMap, items |-> <<>>],
     [map |-> (1 :> 601) @@ (2 :> 602) @@ (3 :> 603), items |-> <<1, 2, 3>>],
     [map |-> (1 :> 601), items |-> <<1>>],
     [map |-> (1 :> 2) @@ (2 :> 601), items |-> <<1, 2>>],
     [map |-> (1 :> 2), items |-> <<1>>],
     [map |-> (1 :> 3), items |-> <<1>>],
     [map |-> (1 :> 501) @@ (2 :> 501), items |-> <<1, 2>>],
     [map |-> (1 :> 501) @@ (2 :> 501), items |-> <<2, 1>>]}

\* the cards of the package: 1 and 3 on database 1, 2 on database 2
RewriteManifestCards ==
    <<Card(1, 0, FALSE, CardData("Q", 1, 7, TableRef(7), <<>>, 201)),
      Card(2, 0, FALSE, CardData("R", 2, 8, TableRef(8), <<>>, 203)),
      Card(3, 0, FALSE, CardData("S", 1, 7, CardRef(1), <<>>, 202))>>

\* _table_map and _field_map after build_table_and_field_mappings, when no
\* metadata request failed
built_table_map ==
    LET part(d) == IF resolve_db_id(d) \in DOMAIN RewriteTargetMetadata
                   THEN tables_mapped(d, manifest.database_metadata[d],
                                      RewriteTargetMetadata[resolve_db_id(d)])
                   ELSE EmptyMap
    IN  Merge(part(1), part(2))

built_field_map ==
    LET part(d) == IF resolve_db_id(d) \in DOMAIN RewriteTargetMetadata
                   THEN fields_mapped(d, manifest.database_metadata[d],
                                      RewriteTargetMetadata[resolve_db_id(d)])
                   ELSE EmptyMap
    IN  Merge(part(1), part(2))

\* ["field", <id>, null] and the older ["field-id", <id>]
FieldRef(id) == ListValue(<<StrValue("field"), IntValue(id), NullValue>>)
FieldIdRef(id) == ListValue(<<StrValue("field-id"), IntValue(id)>>)

\* clause bodies: the filter of one field (mapped, unmapped, of the other
\* database); a nested filter that also compares with the integer 201; a
\* list of fields; an order-by; an expressions object; a field with options
\* that name a second field; a field given by name; an empty list
ClauseTrees ==
    {FieldFilter(201), FieldFilter(202), FieldFilter(203),
     ListValue(<<StrValue("and"), FieldFilter(201),
                 ListValue(<<StrValue(">"), FieldIdRef(202), IntValue(201)>>)>>),
     ListValue(<<FieldRef(201), FieldIdRef(203)>>),
     ListValue(<<ListValue(<<StrValue("asc"), FieldRef(201)>>)>>),
     DictValue(<<"e">>, <<ListValue(<<StrValue("+"), FieldRef(201), IntValue(5)>>)>>),
     ListValue(<<StrValue("field"), IntValue(201),
                 DictValue(<<"source-field">>, <<IntValue(201)>>)>>),
     ListValue(<<StrValue("field"), StrValue("category"),
                 DictValue(<<"base-type">>, <<StrValue("type/Text")>>)>>),
     ListValue(<<>>)}

\* the card payloads given to remap_card_query
RewriteCardPayloads ==
    {[CardData("Q", db[1], table_id, source_table, joins, 201)
         EXCEPT !.query_database = db[2]] :
        db \in {<<1, 1>>, <<2, 2>>, <<0, 1>>, <<0, 0>>, <<3, 3>>},
        table_id \in {0, 7},
        source_table \in {TableRef(7), CardRef(1), CardRef(2), CardRef(9)},
        joins \in {<<>>, <<CardRef(2), TableRef(8)>>}}
    \cup {[CardData("Q", d, 7, TableRef(7), <<>>, 201) EXCEPT !.clauses = key :> tree] :
            d \in {1, 2}, key \in QueryClauseKeys, tree \in ClauseTrees}
    \cup {[CardData("Q", d, 7, TableRef(7), <<>>, 201)
              EXCEPT !.clauses = ("filter" :> FieldFilter(201))
                                 @@ ("breakout" :> ListValue(<<FieldRef(202)>>))
                                 @@ ("limit" :> IntValue(201))] : d \in {1, 2}}
    \cup {NativeCardData("Q", 1, hash, card_id) : hash \in BOOLEAN, card_id \in {1, 2, 9}}
    \cup {[CardData("Q", d, 7, TableRef(7), <<>>, 201)
              EXCEPT !.result_metadata =
                         <<[field_ref |-> FieldRef(f), id |-> f, table_id |-> t]>>,
                     !.visualization_settings =
                         DictValue(<<"column">>, <<FieldRef(f)>>)] :
            d \in {1, 2}, f \in {201, 202, 203}, t \in {7, 8}}

\* the source database that holds a field
database_of_field(field_id) ==
    CHOOSE d \in DOMAIN SourceMetadata :
        \E i \in DOMAIN SourceMetadata[d] :
            \E j \in DOMAIN SourceMetadata[d][i].fields :
                SourceMetadata[d][i].fields[j].id = field_id

\* the fields of the database of a card of the package; any field for a
\* card that is not in the package
fields_of_card(card_id) ==
    {f \in {201, 202, 203} :
        \A i \in DOMAIN RewriteManifestCards :
            RewriteManifestCards[i].id = card_id
                => RewriteManifestCards[i].database_id = database_of_field(f)}

\* a dashcard of card c with one parameter mapping, for c itself (with or
\* without a card_id of its own) or for a card of its series, on a field of
\* the database of the card the mapping is for
RewriteDashcards ==
    {[card_id |-> x[1],
      parameter_mappings |->
          <<[card_id |-> x[2],
             target |-> ListValue(<<StrValue("dimension"), FieldRef(x[3])>>)]>>] :
        x \in {y \in {0, 1, 2, 3, 9} \X {0, 1, 2, 3} \X {201, 202, 203} :
                 /\ y[1] = 0 => y[2] = 0
                 /\ y[3] \in fields_of_card(IF y[2] # 0 THEN y[2] ELSE y[1])}}

\* the parameters of a dashboard: one or two values_source_config, each on
\* a field of the database of its card
RewriteValuesConfigs ==
    {[card_id |-> x[1], value_field |-> FieldRef(x[2])] :
        x \in {y \in {0, 1, 2, 3, 9} \X {201, 202, 203} : y[2] \in fields_of_card(y[1])}}

RewriteParameters ==
    {<<c>> : c \in RewriteValuesConfigs}
    \cup {<<c1, c2>> : c1 \in RewriteValuesConfigs, c2 \in RewriteValuesConfigs}

\* data permission graphs: two groups on the two databases; a group with
\* permissions on database 3, which the package does not map; a group with
\* a key that is no database id
RewriteDataGraphs ==
    {DictValue(<<"revision", "groups">>, <<IntValue(1), groups>>) :
        groups \in
           {DictValue(<<"1", "2">>,
                      <<DictValue(<<"1", "2">>, <<StrValue("all"), StrValue("none")>>),
                        DictValue(<<"2">>, <<StrValue("all")>>)>>),
            DictValue(<<"1">>,
                      <<DictValue(<<"1", "3">>, <<StrValue("all"), StrValue("none")>>)>>),
            DictValue(<<"2">>,
                      <<DictValue(<<"schemas", "1">>,
                                  <<StrValue("all"), StrValue("none")>>)>>)}}

\* collection permission graphs, with and without the revision, on the
\* root collection and collections 1 and 2; on a collection that is not in
\* the package; with a key that is neither "root" nor a collection id
RewriteCollectionGraphs ==
    {CollectionPermissionsGraph(with_revision, groups, collection_ids) :
        with_revision \in BOOLEAN, groups \in {{1}, {1, 2}},
        collection_ids \in {{1, 2}, {1, 5}}}
    \cup {DictValue(<<"groups">>,
                    <<DictValue(<<"2">>,
                                <<DictValue(<<"namespace", "root", "1">>,
                                            <<StrValue("read"), StrValue("none"),
                                              StrValue("write")>>)>>)>>)}

\* collection maps: no collection installed; both installed; target ids
\* that are also source ids
RewriteCollectionMaps ==
    {EmptyMap, (1 :> 611) @@ (2 :> 612), (1 :> 2) @@ (2 :> 611)}

RewriteInit ==
    /\ \E config \in RewriteDbConfigs, cards \in RewriteCardMaps :
          /\ db_map = [by_id |-> config.by_id, by_name |-> config.by_name]
          /\ manifest = Scenario("skip", FALSE, FALSE, config, <<>>, RewriteManifestCards,
                                 <<>>, {}, Target(<<>>, <<>>, <<>>)).manifest
          /\ card_map = cards.map
          /\ card_map_items = cards.items
    /\ table_map = built_table_map
    /\ field_map = built_field_map
    /\ \/ /\ rewrite_pc = "card" /\ rewrite_input \in RewriteCardPayloads
          /\ collection_map = EmptyMap
       \/ /\ rewrite_pc = "dashcard" /\ rewrite_input \in RewriteDashcards
          /\ collection_map = EmptyMap
       \/ /\ rewrite_pc = "parameters" /\ rewrite_input \in RewriteParameters
          /\ collection_map = EmptyMap
       \/ /\ rewrite_pc = "permissions" /\ rewrite_input \in RewriteDataGraphs
          /\ card_map = EmptyMap
          /\ collection_map = EmptyMap
       \/ /\ rewrite_pc = "collection_permissions"
          /\ rewrite_input \in RewriteCollectionGraphs
          /\ card_map = EmptyMap
          /\ collection_map \in RewriteCollectionMaps
    /\ rewrite_output = <<>>
    /\ conflict_strategy = "skip"
    /\ include_archived = FALSE
    /\ apply_permissions = FALSE
    /\ target = [Target(<<>>, <<>>, <<>>) EXCEPT !.metadata = RewriteTargetMetadata]
    /\ pc = "idle"
    /\ exit_code = -1
    /\ target_db_metadata = {}
    /\ flat_target_collections = <<>>
    /\ work = <<>>
    /\ cursor = 1
    /\ report = <<>>
    /\ report_written = FALSE
    /\ calls = <<>>
    /\ failures = 0
    /\ next_id = FirstNewId
    /\ SortIdle
    /\ ExportIdle

\* card_data, remapped = self.id_remapper.remap_card_query(card_data, self._card_map)
RewriteCard ==
    /\ rewrite_pc = "card"
    /\ rewrite_output' = <<remap_card_query(rewrite_input, card_map)>>
    /\ rewrite_pc' = "once"
    /\ UNCHANGED <<sortVars, importVars, exportVars, rewrite_input, card_map_items>>

\* remap_card_query given the payload it returned
RewriteCardAgain ==
    /\ rewrite_pc = "once"
    /\ ~rewrite_output[1].raises
    /\ rewrite_output' = Append(rewrite_output,
                                remap_card_query(rewrite_output[1].data, card_map))
    /\ rewrite_pc' = "twice"
    /\ UNCHANGED <<sortVars, importVars, exportVars, rewrite_input, card_map_items>>

\* clean_dashcard["parameter_mappings"] = self._remap_parameter_mappings(
\*     dashcard["parameter_mappings"], source_card_id)
RewriteParameterMappings ==
    /\ rewrite_pc = "dashcard"
    /\ rewrite_output' = <<remap_parameter_mappings(rewrite_input.parameter_mappings,
                                                    rewrite_input.card_id)>>
    /\ rewrite_pc' = "dashcard_done"
    /\ UNCHANGED <<sortVars, importVars, exportVars, rewrite_input, card_map_items>>

\* remapped_parameters = self._remap_parameters(dash_data.get("parameters", []))
RewriteDashboardParameters ==
    /\ rewrite_pc = "parameters"
    /\ rewrite_output' = <<remap_parameters(rewrite_input)>>
    /\ rewrite_pc' = "parameters_done"
    /\ UNCHANGED <<sortVars, importVars, exportVars, rewrite_input, card_map_items>>

\* remapped_groups = self._remap_permissions_graph(groups)
RewritePermissions ==
    /\ rewrite_pc = "permissions"
    /\ rewrite_output' = <<remap_permissions_graph(dict_get(rewrite_input, "groups"))>>
    /\ rewrite_pc' = "permissions_done"
    /\ UNCHANGED <<sortVars, importVars, exportVars, rewrite_input, card_map_items>>

\* remapped_collection_perms = self._remap_collection_permissions_graph(
\*     self.manifest.collection_permissions_graph)
RewriteCollectionPermissions ==
    /\ rewrite_pc = "collection_permissions"
    /\ rewrite_output' = <<remap_collection_permissions_graph(rewrite_input)>>
    /\ rewrite_pc' = "collection_permissions_done"
    /\ UNCHANGED <<sortVars, importVars, exportVars, rewrite_input, card_map_items>>

RewriteNext ==
    \/ RewriteCard
    \/ RewriteCardAgain
    \/ RewriteParameterMappings
    \/ RewriteDashboardParameters
    \/ RewritePermissions
    \/ RewriteCollectionPermissions

SpecRewrite == RewriteInit /\ [][RewriteNext]_vars

(***************************************************************************)
(* Reference graph notions used by the claims about the order.             *)
(***************************************************************************)
\* R is reachable from Q through one or more references inside the set S
RECURSIVE ReachFrom(_, _, _)
ReachFrom(frontier, seen, deps) ==
    LET next == (UNION {deps[c] \cap DOMAIN deps : c \in frontier}) \ seen
    IN  IF next = {} THEN seen ELSE ReachFrom(next, seen \cup next, deps)

Reachable(q, deps) == ReachFrom({q}, {}, deps)

\* the reference q -> r lies on a reference cycle: q is reachable back from r
OnCycle(q, r, deps) == q \in Reachable(r, deps) \/ q = r

Precedes(order, a, b) == IndexOf(order, a) < IndexOf(order, b)

\* C1: in the order returned by _topological_sort_cards, every reference of a
\* card Q to another card R of the same list places R before Q, unless that
\* reference lies on a reference cycle.
C1_DepsFirstUnlessOnCycle ==
    sortPc = "sorted" =>
        \A q \in SortIds : \A r \in (sortDeps[q] \cap SortIds) \ {q} :
            ~OnCycle(q, r, sortDeps) => Precedes(sortResult, r, q)

(***************************************************************************)
(* Notions used by the claims about an import run.                         *)
(***************************************************************************)
\* this step is one turn of the loop of the given phase
ItemStep(phase) == pc = phase /\ cursor <= Len(work) /\ cursor' = cursor + 1

\* the requests issued by this step
NewCalls == SubSeq(calls', Len(calls) + 1, Len(calls'))

\* the target collection an item of the manifest resolves to
ResolvedCollection(item) ==
    IF item.collection_id # 0 THEN Get(collection_map, item.collection_id) ELSE 0

ResolvedParent(collection) ==
    IF collection.parent_id # 0 THEN Get(collection_map, collection.parent_id) ELSE 0

\* the ids of the rows of a given name in a given collection
Named(rows, name, collection_id) ==
    {rows[i].id : i \in {j \in DOMAIN rows :
                            rows[j].name = name /\ rows[j].collection_id = collection_id}}

\* _import_single_card reaches its lookup: every card the payload references
\* is registered or in the package, and the database resolves
CardLookupRuns(card) ==
    /\ \A d \in extract_card_dependencies(card.data) :
           d \in DOMAIN card_map \/ \E i \in DOMAIN manifest.cards : manifest.cards[i].id = d
    /\ resolve_db_id(card.data.database_id) # 0

\* the entity the lookup of the current item finds, 0 for none.  No call of
\* the step raised, so the lookup itself did not.
FoundByLookup ==
    IF failures' # failures THEN 0
    ELSE IF ItemStep("collections")
    THEN find_existing_collection(work[cursor].name, ResolvedParent(work[cursor]),
                                  flat_target_collections)
    ELSE IF ItemStep("cards") /\ CardLookupRuns(work[cursor])
    THEN find_existing_in_collection(target.cards, work[cursor].name,
                                     ResolvedCollection(work[cursor]), FALSE)
    ELSE IF ItemStep("dashboards")
    THEN find_existing_in_collection(target.dashboards, work[cursor].name,
                                     ResolvedCollection(work[cursor]), FALSE)
    ELSE 0

CreateApis == {"create_collection", "create_card", "create_dashboard"}

UpdateApis == {"update_collection", "update_card", "update_dashboard"}

IsPrefix(s, t) == Len(s) <= Len(t) /\ \A i \in DOMAIN s : t[i] = s[i]

DatabasesValid ==
    \A i \in DOMAIN manifest.cards :
        ~manifest.cards[i].archived =>
            /\ resolve_db_id(manifest.cards[i].database_id) # 0
            /\ resolve_db_id(manifest.cards[i].database_id) \in target.databases

\* C4: no create or update request is issued unless every database of a
\* non-archived card is mapped to a database that exists on the target;
\* otherwise the run stops in validation, with exit code 1, before any write.
C4_NoWriteUnlessDatabasesValid ==
    ~DatabasesValid =>
        /\ calls = <<>>
        /\ pc = "exit" => exit_code = 1

\* C5: under skip, an item whose lookup finds a target entity causes neither
\* a create nor an update request, and no step of the run changes a
\* collection, card or dashboard that was on the target before the step.
C5_SkipLeavesTargetAlone ==
    [][conflict_strategy = "skip" =>
          /\ FoundByLookup # 0 => (calls' = calls /\ target' = target)
          /\ IsPrefix(target.collections, target'.collections)
          /\ IsPrefix(target.cards, target'.cards)
          /\ IsPrefix(target.dashboards, target'.dashboards)]_vars

\* a finished run under skip has passed over a collection and a dashboard
\* of the package that the target already held, and has updated nothing
C5_Witness ==
    /\ conflict_strategy = "skip"
    /\ pc = "exit"
    /\ \A i \in DOMAIN calls : calls[i].api \notin UpdateApis
    /\ \E i \in DOMAIN report :
           report[i].status = "skipped" /\ report[i].entity_type = "collection"
    /\ \E i \in DOMAIN report :
           report[i].status = "skipped" /\ report[i].entity_type = "dashboard"

\* C6: under overwrite, an item whose lookup finds a target entity is
\* answered by one update request on that entity and no create request; when
\* the update is accepted the entity's id is registered for the item; the
\* number of target entities of the item's name in its collection does not
\* grow.
C6_OverwriteUpdatesInPlace ==
    [][(conflict_strategy = "overwrite" /\ FoundByLookup # 0) =>
          /\ Len(NewCalls) = 1
          /\ NewCalls[1].api \in UpdateApis
          /\ NewCalls[1].id = FoundByLookup
          /\ NewCalls[1].src = work[cursor].id
          /\ NewCalls[1].ok =>
                 /\ ItemStep("collections") =>
                        /\ work[cursor].id \in DOMAIN collection_map'
                        /\ collection_map'[work[cursor].id] = FoundByLookup
                 /\ ItemStep("cards") =>
                        /\ work[cursor].id \in DOMAIN card_map'
                        /\ card_map'[work[cursor].id] = FoundByLookup
                 /\ report'[Len(report')].status = "updated"
                 /\ report'[Len(report')].target_id = FoundByLookup
          /\ Len(target'.collections) = Len(target.collections)
          /\ Len(target'.cards) = Len(target.cards)
          /\ Len(target'.dashboards) = Len(target.dashboards)
          /\ ItemStep("cards") =>
                 Named(target'.cards, work[cursor].name, ResolvedCollection(work[cursor]))
                     \subseteq
                 Named(target.cards, work[cursor].name, ResolvedCollection(work[cursor]))
          /\ ItemStep("dashboards") =>
                 Named(target'.dashboards, work[cursor].name,
                       ResolvedCollection(work[cursor]))
                     \subseteq
                 Named(target.dashboards, work[cursor].name,
                       ResolvedCollection(work[cursor]))]_vars

\* overwrite has updated a card that was on the target before the run
C6_Witness ==
    /\ conflict_strategy = "overwrite"
    /\ \E i \in DOMAIN calls :
           /\ calls[i].api = "update_card" /\ calls[i].ok
           /\ calls[i].id < FirstNewId
           /\ calls[i].src \in DOMAIN card_map
           /\ card_map[calls[i].src] = calls[i].id

\* C7: under rename, a card whose name N is taken in its resolved target
\* collection is created as "N (n)", n the smallest number from 1 for which
\* the collection holds no card of that name.
C7_RenamedCardTakesSmallestFreeNumber ==
    [][(conflict_strategy = "rename" /\ ItemStep("cards")) =>
          LET card == work[cursor]
              taken(name) == Named(target.cards, name, ResolvedCollection(card)) # {}
          IN  taken(card.name) =>
                  \A i \in DOMAIN NewCalls :
                      NewCalls[i].api = "create_card" =>
                          \E n \in 1..(Len(target.cards) + 1) :
                              /\ NewCalls[i].name = numbered_name(card.name, n)
                              /\ ~taken(numbered_name(card.name, n))
                              /\ \A m \in 1..(n - 1) : taken(numbered_name(card.name, m))]_vars

\* C8: under rename, a dashboard whose name is found in its resolved target
\* collection is created and updated under the generated name "<name> (n)",
\* and no two dashboards of the collection share a name afterwards.
C8_RenamedDashboardTakesGeneratedName ==
    [][(conflict_strategy = "rename" /\ ItemStep("dashboards") /\ FoundByLookup # 0) =>
          LET dash == work[cursor]
              new_name == generate_unique_name(target.dashboards, dash.name,
                                               ResolvedCollection(dash), 0)
          IN  /\ \A i \in DOMAIN NewCalls : NewCalls[i].name = new_name
              /\ \A i, j \in DOMAIN target'.dashboards :
                     (i # j /\ target'.dashboards[i].collection_id
                                  = target'.dashboards[j].collection_id)
                         => target'.dashboards[i].name # target'.dashboards[j].name]_vars

\* C9: under rename, a source collection whose name is found on the target
\* under the same target parent is created as a new collection named
\* "<name> (n)", its new id is put in the collection map and the report has
\* a created item for it.
C9_RenamedCollectionIsCreated ==
    [][(conflict_strategy = "rename" /\ ItemStep("collections") /\ FoundByLookup # 0) =>
          LET collection == work[cursor]
          IN  /\ Len(NewCalls) = 1
              /\ NewCalls[1].api = "create_collection"
              /\ NewCalls[1].ok
              /\ \E n \in 1..(Len(target.collections) + 1) :
                     NewCalls[1].name = numbered_name(collection.name, n)
              /\ collection.id \in DOMAIN collection_map'
              /\ collection_map'[collection.id] = NewCalls[1].id
              /\ collection_map'[collection.id] >= FirstNewId
              /\ report'[Len(report')] =
                     ImportReportItem("collection", "created", collection.id,
                                      NewCalls[1].id, NewCalls[1].name)]_vars

\* every entry of m is in n, with the same value
Extends(m, n) == \A k \in DOMAIN m : k \in DOMAIN n /\ n[k] = m[k]

\* C10: the table map, the field map, the collection map and the card map
\* only grow: no step removes an entry or gives a registered source id
\* another target id.
C10_MapsOnlyGrow ==
    [][/\ Extends(table_map, table_map')
       /\ Extends(field_map, field_map')
       /\ Extends(collection_map, collection_map')
       /\ Extends(card_map, card_map')]_vars

\* a run has filled all four maps, the collection map and the card map with
\* two entries each
C10_Witness ==
    /\ DOMAIN table_map # {} /\ DOMAIN field_map # {}
    /\ Cardinality(DOMAIN collection_map) = 2
    /\ Cardinality(DOMAIN card_map) = 2

(***************************************************************************)
(* Reference closure of the exported cards.                                *)
(***************************************************************************)
\* the cards a payload references: the source-table and the joins of its
\* query tree, and the template tags of type "card" of its native query
PayloadReferences(card_data) ==
    CardExporter_extract_card_dependencies(card_data) \cup card_data.template_tags

SourceReferences == [c \in DOMAIN source.cards |-> PayloadReferences(source.cards[c])]

RecordedCards == {export_manifest.cards[i].id : i \in DOMAIN export_manifest.cards}

\* the path the traversal gives to a collection; "collections" for the root
HomePath(collection_id) ==
    IF collection_id = 0 THEN "collections"
    ELSE IF collection_id \in DOMAIN collection_path_map
    THEN collection_path_map[collection_id]
    ELSE "dependencies"

ExportFinishedWithoutFailure ==
    /\ export_pc = "exit"
    /\ export_exit_code = 0
    /\ manifest_written
    /\ export_failures = 0

\* C3: after an export run in which no API call failed, every card that a
\* card of manifest.cards references, directly or through other cards, is
\* itself in manifest.cards, and every recorded card was written under the
\* path of its own collection or under "dependencies".
C3_ExportRecordsReferenceClosure ==
    ExportFinishedWithoutFailure =>
        /\ \A c \in RecordedCards :
              Reachable(c, SourceReferences) \subseteq RecordedCards
        /\ \A i \in DOMAIN export_manifest.cards :
              export_manifest.cards[i].base_path
                  \in {HomePath(export_manifest.cards[i].collection_id), "dependencies"}

(***************************************************************************)
(* The end of an import run: report file, exit code, aborts.               *)
(***************************************************************************)
\* C11: a run that has exited, whatever its exit code, has written the
\* import report file.
C11_ReportWrittenBeforeExit ==
    pc = "exit" => report_written

\* the report holds an item with status failed, of any entity type
SomeItemFailed == \E i \in DOMAIN report : report[i].status = "failed"

\* C12: a run that reached its end (the report is written) exits with 4
\* when some collection, card, dashboard or permissions item was reported
\* failed, and with 0 when none was.
C12_ExitCodeTellsFailures ==
    (pc = "exit" /\ report_written) =>
        exit_code = (IF SomeItemFailed THEN 4 ELSE 0)

\* the report item the step appends for the item of the loop, if it is a
\* failed one
FailedItemAppended(entity_type) ==
    /\ Len(report') = Len(report) + 1
    /\ report'[Len(report')].status = "failed"
    /\ report'[Len(report')].entity_type = entity_type
    /\ report'[Len(report')].source_id = work[cursor].id

\* C13: after validation has passed, a step in which an API call raises
\* while a collection, card or dashboard is installed reports that item as
\* failed and goes on to the next item, and the run ends only through its
\* summary (no abort).
C13_ItemErrorsDoNotAbort ==
    [][pc # "validate" =>
          /\ pc' = "exit" => pc = "summary"
          /\ (ItemStep("collections") /\ failures' # failures)
                 => FailedItemAppended("collection")
          /\ (ItemStep("cards") /\ failures' # failures)
                 => FailedItemAppended("card")
          /\ (ItemStep("dashboards") /\ failures' # failures)
                 => FailedItemAppended("dashboard")]_vars

(***************************************************************************)
(* The order of the phases of an import run.                               *)
(***************************************************************************)
DashboardApis == {"create_dashboard", "update_dashboard"}

PermissionApis == {"update_permissions_graph", "update_collection_permissions_graph"}

\* the report holds an item for that entity: its installation was attempted
Attempted(entity_type, id) ==
    \E j \in DOMAIN report :
        report[j].entity_type = entity_type /\ report[j].source_id = id

AllCardsAttempted ==
    \A k \in DOMAIN cards_to_import : Attempted("card", cards_to_import[k].id)

AllDashboardsAttempted ==
    \A k \in DOMAIN manifest.dashboards :
        (~manifest.dashboards[k].archived \/ include_archived)
            => Attempted("dashboard", manifest.dashboards[k].id)

\* C14: once a dashboard request has been issued every card of the import
\* has been attempted; once a permission graph has been submitted every card
\* and dashboard has been attempted and no collection, card or dashboard
\* request follows it.
C14_DashboardsAfterCardsPermissionsLast ==
    /\ (\E i \in DOMAIN calls : calls[i].api \in DashboardApis) => AllCardsAttempted
    /\ \A i \in DOMAIN calls :
           calls[i].api \in PermissionApis =>
               /\ AllCardsAttempted
               /\ AllDashboardsAttempted
               /\ pc \in {"summary", "exit"}
               /\ \A j \in DOMAIN calls : j > i => calls[j].api \in PermissionApis

C14_Witness ==
    /\ \E i \in DOMAIN calls : calls[i].api = "create_dashboard" /\ calls[i].ok
    /\ \E i \in DOMAIN calls : calls[i].api = "update_collection_permissions_graph"
    /\ \E i \in DOMAIN calls : calls[i].api = "create_card" /\ calls[i].ok
    /\ Len(cards_to_import) = 2
    /\ AllCardsAttempted

(***************************************************************************)
(* Cards that reference each other, and cards that reference a card the    *)
(* package does not hold.                                                  *)
(***************************************************************************)
\* the report items of the cards, by status
CardItems(status) ==
    {i \in DOMAIN report : report[i].entity_type = "card" /\ report[i].status = status}

\* the package holds exactly two cards, both imported, each with the other
\* as its source-table and with no join
MutualReference ==
    /\ Len(manifest.cards) = 2
    /\ Len(cards_to_import) = 2
    /\ \A i \in 1..2 :
          /\ manifest.cards[i].data.source_table = CardRef(manifest.cards[3 - i].id)
          /\ manifest.cards[i].data.joins = <<>>

\* the loop over the cards is over
CardsDone == pc \in {"dashboards", "summary"} \/ (pc = "exit" /\ report_written)

\* C18: two cards that reference each other are attempted in the order of
\* the tail, and when the loop over the cards is over one of them is
\* reported created and the other failed.
C18_CycleInstallsOne ==
    (MutualReference /\ CardsDone) =>
        /\ Cardinality(CardItems("created")) = 1
        /\ Cardinality(CardItems("failed")) = 1

\* the requests that submit the card with that source id
CardRequests(id) ==
    {i \in DOMAIN calls : calls[i].api \in {"create_card", "update_card"}
                          /\ calls[i].src = id}

\* the card ids a card of the package references that are neither in the
\* package nor in the card map
UnknownReferences(card) ==
    {d \in {card.data.source_table.id : x \in {y \in {1} : card.data.source_table.kind = "card"}}
            \cup {card.data.joins[j].id :
                     j \in {n \in DOMAIN card.data.joins : card.data.joins[n].kind = "card"}}
            \cup {card.data.native_sql[j].id : j \in DOMAIN card.data.native_sql}
            \cup {card.data.template_tags[j].card_id :
                     j \in {n \in DOMAIN card.data.template_tags :
                              card.data.template_tags[n].type = "card"}} :
        /\ d \notin DOMAIN card_map
        /\ \A i \in DOMAIN manifest.cards : manifest.cards[i].id # d}

\* C19: a card that references a card neither in the package nor in the
\* card map is not submitted to create_card or update_card; once the loop
\* over the cards is over it has exactly one report item, a failed one, and
\* every other card of the import has been attempted.
C19_UnknownReferenceIsNotSubmitted ==
    \A k \in DOMAIN cards_to_import :
        UnknownReferences(cards_to_import[k]) # {} =>
            /\ CardRequests(cards_to_import[k].id) = {}
            /\ CardsDone =>
                  /\ Cardinality({i \in DOMAIN report :
                                    /\ report[i].entity_type = "card"
                                    /\ report[i].source_id = cards_to_import[k].id}) = 1
                  /\ \A i \in CardItems("failed") \cup CardItems("created") :
                        report[i].source_id = cards_to_import[k].id
                            => report[i].status = "failed"
                  /\ AllCardsAttempted

(***************************************************************************)
(* The rewriters.                                                          *)
(***************************************************************************)
\* C15: remap_card_query given the payload it returned, under the same
\* resolver state, returns that payload again (and does not raise).
C15_RewriterIsIdempotent ==
    rewrite_pc = "twice" => rewrite_output[2] = rewrite_output[1]

\* the target id of a card when the card map has one, else the id itself
TranslatedCard(n) == IF n \in DOMAIN card_map THEN card_map[n] ELSE n

\* a tag name with the card id it encodes translated: the leading hash and
\* the slug are kept
TranslatedTagName(tag_name) ==
    TagName(tag_name.hash, TranslatedCard(tag_name.id), tag_name.slug)

\* C17: in the payload remap_card_query returns for a native-SQL card,
\* every {{#n-slug}} of the SQL text and every template tag of type card
\* carries the target id of card n when the card map has one (slug and
\* leading hash kept), and is unchanged when it has none.
C17_NativeReferencesTranslated ==
    (rewrite_pc = "once" /\ rewrite_output[1].remapped) =>
        LET given == rewrite_input
            returned == rewrite_output[1].data
        IN  /\ returned.native_sql =
                  [i \in DOMAIN given.native_sql |->
                      SqlReference(TranslatedCard(given.native_sql[i].id),
                                   given.native_sql[i].slug)]
            /\ returned.template_tags =
                  [i \in DOMAIN given.template_tags |->
                      IF given.template_tags[i].type = "card"
                      THEN [key |-> TranslatedTagName(given.template_tags[i].key),
                            name |-> TranslatedTagName(given.template_tags[i].name),
                            type |-> "card",
                            card_id |-> TranslatedCard(given.template_tags[i].card_id)]
                      ELSE given.template_tags[i]]

\* a ["field", <id>, opts] or ["field-id", <id>] node with an integer id
IsFieldNode(node) ==
    /\ node.kind = "list"
    /\ Len(node.items) >= 2
    /\ node.items[1] \in {StrValue("field"), StrValue("field-id")}
    /\ node.items[2].kind = "int"

RECURSIVE FieldsTranslated(_, _, _)

\* returned is given with the id of every field node replaced by its image
\* in the field map of database d when it has one, and nothing else changed
FieldsTranslated(given, returned, d) ==
    IF IsFieldNode(given)
    THEN LET id == given.items[2].int
         IN  returned = [given EXCEPT !.items[2] =
                            IntValue(IF <<d, id>> \in DOMAIN field_map
                                     THEN field_map[<<d, id>>] ELSE id)]
    ELSE IF given.kind \in {"list", "dict"}
    THEN /\ returned.kind = given.kind
         /\ returned.keys = given.keys
         /\ Len(returned.items) = Len(given.items)
         /\ \A i \in DOMAIN given.items :
               FieldsTranslated(given.items[i], returned.items[i], d)
    ELSE returned = given

RECURSIVE IdPairs(_, _)

\* the integers of a value, each with the integer at its place in the value
\* returned for it
IdPairs(given, returned) ==
    IF given.kind = "int" THEN {<<given.int, returned.int>>}
    ELSE IF given.kind \in {"list", "dict"}
    THEN UNION {IdPairs(given.items[i], returned.items[i]) : i \in DOMAIN given.items}
    ELSE {}

\* every id that was replaced was replaced by its image in the field map of
\* database d
SubstitutedFrom(pairs, d) ==
    \A p \in pairs :
        p[2] # p[1] => /\ <<d, p[1]>> \in DOMAIN field_map
                       /\ p[2] = field_map[<<d, p[1]>>]

\* the ids of a card payload that hold fields, with those returned for them
CardIdPairs(given, returned) ==
    UNION {IdPairs(given.clauses[key], returned.clauses[key]) : key \in DOMAIN given.clauses}
    \cup IdPairs(given.visualization_settings, returned.visualization_settings)
    \cup UNION {IdPairs(given.result_metadata[i].field_ref,
                        returned.result_metadata[i].field_ref)
                \cup {<<given.result_metadata[i].id, returned.result_metadata[i].id>>} :
                   i \in DOMAIN given.result_metadata}

\* the question a parameter mapping is for: the card it names, else the
\* card of its dashcard
MappingCard(dashcard, i) ==
    IF dashcard.parameter_mappings[i].card_id # 0
    THEN dashcard.parameter_mappings[i].card_id ELSE dashcard.card_id

\* the source database of a question of the package, 0 for any other id
QuestionDatabase(card_id) ==
    IF \E i \in DOMAIN manifest.cards : manifest.cards[i].id = card_id
    THEN (CHOOSE c \in SeqToSet(manifest.cards) : c.id = card_id).database_id
    ELSE 0

\* C16: every field id the rewriters put into a card payload, into the
\* target of a parameter mapping of a dashcard or into the value_field of a
\* dashboard parameter is the image, in the field map, of the id it
\* replaces under the source database of the question the reference
\* belongs to: no id of another database's mapping is put in.
C16_FieldIdsFromOwnDatabase ==
    /\ (rewrite_pc = "once" /\ rewrite_output[1].remapped) =>
           SubstitutedFrom(CardIdPairs(rewrite_input, rewrite_output[1].data),
                           source_database(rewrite_input))
    /\ rewrite_pc = "dashcard_done" =>
           \A i \in DOMAIN rewrite_input.parameter_mappings :
               SubstitutedFrom(IdPairs(rewrite_input.parameter_mappings[i].target,
                                       rewrite_output[1][i].target),
                               QuestionDatabase(MappingCard(rewrite_input, i)))
    /\ rewrite_pc = "parameters_done" =>
           \A i \in DOMAIN rewrite_input :
               SubstitutedFrom(IdPairs(rewrite_input[i].value_field,
                                       rewrite_output[1][i].value_field),
                               QuestionDatabase(rewrite_input[i].card_id))

\* the parameters of a dashboard whose first source is card 1 and whose
\* second is card 2, of the other database: each value_field carries the
\* image of its id under the database of its own card
C16_Witness ==
    /\ rewrite_pc = "parameters_done"
    /\ Len(rewrite_input) = 2
    /\ rewrite_input[1] = [card_id |-> 1, value_field |-> FieldRef(201)]
    /\ rewrite_input[2] = [card_id |-> 2, value_field |-> FieldRef(203)]
    /\ <<1, 201>> \in DOMAIN field_map
    /\ <<2, 203>> \in DOMAIN field_map
    /\ rewrite_output[1][1].value_field = FieldRef(field_map[<<1, 201>>])
    /\ rewrite_output[1][2].value_field = FieldRef(field_map[<<2, 203>>])
    /\ field_map[<<1, 201>>] # 201
    /\ field_map[<<2, 203>>] # 203

(***************************************************************************)
(* The dependency extractor.                                               *)
(***************************************************************************)
\* the question ids a card payload references: source-table "card__<id>",
\* the joins' source-table "card__<id>", the template tags of type "card"
\* and the {{#<id>-<slug>}} occurrences of the native SQL
ReferencedQuestions(card_data) ==
    {card_data.source_table.id : x \in {y \in {1} : card_data.source_table.kind = "card"}}
    \cup {card_data.joins[j].id :
             j \in {n \in DOMAIN card_data.joins : card_data.joins[n].kind = "card"}}
    \cup {card_data.native_sql[j].id : j \in DOMAIN card_data.native_sql}
    \cup {card_data.template_tags[j].card_id :
             j \in {n \in DOMAIN card_data.template_tags :
                      card_data.template_tags[n].type = "card"}}

\* C21: for every card payload of the package, the dependency extractor of
\* the import ordering and the one of the export discovery return exactly
\* the question ids the payload references through source-table, joins,
\* template tags of type card and {{#id-slug}} in native SQL.
C21_ExtractorReturnsEveryReference ==
    \A k \in DOMAIN cards_to_import :
        /\ extract_card_dependencies(cards_to_import[k].data)
               = ReferencedQuestions(cards_to_import[k].data)
        /\ CardExporter_extract_card_dependencies(cards_to_import[k].data)
               = ReferencedQuestions(cards_to_import[k].data)

(***************************************************************************)
(* The walk of the exporter over the reference graph.                      *)
(***************************************************************************)
\* cards 1 and 2 of the source reference each other: 1 -> 2 -> 1
SourceCycle ==
    /\ source.cards[1].source_table = CardRef(2)
    /\ source.cards[2].source_table = CardRef(1)

\* C22: the walk of export_card_with_dependencies ends on every reference
\* graph, cycles included (each collection's walk is one step of the run,
\* and the run reaches its end); no card is recorded twice in
\* manifest.cards; and in a run without a failed API call that reaches
\* cards 1 and 2 referencing each other, exactly one cycle warning is
\* logged and both cards are recorded, while no warning is logged when no
\* cycle is walked.
C22_ExportWalkEndsAndWritesOnce ==
    /\ \A i, j \in DOMAIN export_manifest.cards :
          export_manifest.cards[i].id = export_manifest.cards[j].id => i = j
    /\ ExportFinishedWithoutFailure =>
          IF SourceCycle /\ RecordedCards \cap {1, 2} # {}
          THEN cycle_warnings = 1 /\ {1, 2} \subseteq RecordedCards
          ELSE cycle_warnings = 0

\* a finished run that walked the cycle 1 -> 2 -> 1 and came back to card 2
\* in its own collection
C22_Witness ==
    /\ ExportFinishedWithoutFailure
    /\ SourceCycle
    /\ cycle_warnings = 1
    /\ {1, 2} \subseteq RecordedCards
    /\ {1, 2} \subseteq DOMAIN collection_path_map

(***************************************************************************)
(* The order in which collections are installed.                           *)
(***************************************************************************)
\* the position in the loop of import_collections of the collection with
\* that source id
AttemptOf(id) == CHOOSE i \in DOMAIN work : work[i].id = id

\* the report items of collections, in the order they were appended
CollectionItems == {i \in DOMAIN report : report[i].entity_type = "collection"}

\* C23: the loop of import_collections runs over the manifest's collections
\* in ascending path order, so that the collection whose source parent is
\* in the manifest is attempted after that parent; the report items of the
\* collections are appended in that order.
C23_CollectionsInPathOrder ==
    pc = "collections" =>
        /\ \A i, j \in DOMAIN work : i < j => ~LexLess(work[j].path, work[i].path)
        /\ \A i, j \in DOMAIN work :
              work[i].parent_id = work[j].id => j < i
        /\ \A i, j \in CollectionItems :
              i < j => /\ AttemptOf(report[i].source_id) < AttemptOf(report[j].source_id)
                       /\ AttemptOf(report[j].source_id) < cursor

\* the child listed before its parent in the manifest, both attempted, the
\* parent first
C23_Witness ==
    /\ pc = "collections"
    /\ Len(manifest.collections) = 2
    /\ manifest.collections[1].parent_id = manifest.collections[2].id
    /\ cursor > Len(work)
    /\ Len(report) = 2
    /\ report[1].source_id = manifest.collections[2].id
    /\ report[2].source_id = manifest.collections[1].id

(***************************************************************************)
(* The order the sort gives to the cards.                                  *)
(***************************************************************************)
\* the cards of the list that are on a reference cycle or reach one
Unorderable ==
    {c \in SortIds : \E d \in Reachable(c, sortDeps) \cup {c} :
                        d \in Reachable(d, sortDeps)}

\* the cards placed before position k of the returned order
PlacedBefore(k) == {sortResult[i] : i \in 1..(k - 1)}

\* the orderable cards not placed before position k whose references
\* inside the list are all placed
ReadyAt(k) ==
    {c \in (SortIds \ Unorderable) \ PlacedBefore(k) :
        (sortDeps[c] \cap SortIds) \subseteq PlacedBefore(k)}

\* the head of the order: at each position the ready card of smallest id
HeadBySmallestReadyId ==
    \A k \in 1..Cardinality(SortIds \ Unorderable) :
        /\ sortResult[k] \in ReadyAt(k)
        /\ \A c \in ReadyAt(k) : sortResult[k] <= c

\* the tail of the order: the unorderable cards by ascending id
TailByAscendingId ==
    \A k \in (Cardinality(SortIds \ Unorderable) + 1)..Len(sortResult) :
        /\ sortResult[k] \in Unorderable
        /\ \A j \in (k + 1)..Len(sortResult) : sortResult[k] < sortResult[j]

\* C24: the returned order places, at each position, the card of smallest
\* source id among those whose references are all placed, and then the
\* cards that are on a cycle or depend on one, in ascending source-id order.
C24_OrderBySmallestIdThenAscendingTail ==
    sortPc = "sorted" => HeadBySmallestReadyId /\ TailByAscendingId

(***************************************************************************)
(* Where the exporter writes the cards it reaches as dependencies.         *)
(***************************************************************************)
\* the collections recorded in the manifest: those exported in the run
RecordedCollections ==
    {export_manifest.collections[i].id : i \in DOMAIN export_manifest.collections}

\* the path under which the run recorded the collection
RecordedPath(collection_id) ==
    LET i == CHOOSE j \in DOMAIN export_manifest.collections :
                 export_manifest.collections[j].id = collection_id
    IN  export_manifest.collections[i].path

\* C25: after an export run without a failed API call, every recorded card
\* whose home collection was exported in the run lies under the path of
\* that collection; the cards under "dependencies" are cards whose home
\* collection was not exported in the run.
C25_DependencyWrittenUnderHomeCollection ==
    ExportFinishedWithoutFailure =>
        \A i \in DOMAIN export_manifest.cards :
            LET card == export_manifest.cards[i]
            IN  /\ card.collection_id \in RecordedCollections
                       => card.base_path = RecordedPath(card.collection_id)
                /\ card.base_path = "dependencies"
                       => card.collection_id \notin RecordedCollections

(***************************************************************************)
(* The paths of the exported collections.                                  *)
(***************************************************************************)
\* C26: after an export run, no two collections recorded in the manifest
\* have the same path.
C26_CollectionPathsUnique ==
    (export_pc = "exit" /\ manifest_written) =>
        \A i, j \in DOMAIN export_manifest.collections :
            export_manifest.collections[i].path = export_manifest.collections[j].path
                => i = j

(***************************************************************************)
(* The panels submitted for a dashboard.                                   *)
(***************************************************************************)
\* the dashcards of the manifest dashboard with that source id
SourceDashcards(id) ==
    LET i == CHOOSE j \in DOMAIN manifest.dashboards : manifest.dashboards[j].id = id
    IN  manifest.dashboards[i].dashcards

\* the positions of the source panels that are kept: text and heading
\* panels, and panels whose card is in the card map
KeptPanels(dashcards) ==
    {i \in DOMAIN dashcards : dashcards[i] = 0 \/ dashcards[i] \in DOMAIN card_map}

\* the k-th kept position, counted in source order
KeptPanel(dashcards, k) ==
    CHOOSE i \in KeptPanels(dashcards) :
        Cardinality({j \in KeptPanels(dashcards) : j < i}) = k - 1

\* C27: the panel list of every update_dashboard request holds, in source
\* order, the source panels without card_id as they are and the panels
\* whose card_id is in the card map with the target id in its place; the
\* panels whose card_id is not in the card map are absent.
C27_PanelsCarryTargetIdsInSourceOrder ==
    \A c \in DOMAIN calls :
        calls[c].api = "update_dashboard" =>
            LET given == SourceDashcards(calls[c].src)
                sent == calls[c].dashcards
            IN  /\ Len(sent) = Cardinality(KeptPanels(given))
                /\ \A k \in DOMAIN sent :
                      LET source_card_id == given[KeptPanel(given, k)]
                      IN  sent[k] = IF source_card_id = 0 THEN 0
                                    ELSE card_map[source_card_id]

\* a dashboard of three panels submitted with two: the panel of a card
\* that is not in the card map dropped, the next one with its target id,
\* the text panel last
C27_Witness ==
    \E c \in DOMAIN calls :
        /\ calls[c].api = "update_dashboard"
        /\ SourceDashcards(calls[c].src) = <<1, 2, 0>>
        /\ 1 \notin DOMAIN card_map
        /\ 2 \in DOMAIN card_map
        /\ calls[c].dashcards = <<card_map[2], 0>>
        /\ card_map[2] # 2

(***************************************************************************)
(* The permission graphs.                                                  *)
(***************************************************************************)
\* the object holds that value under that key
HasEntry(object, key, value) ==
    \E i \in DOMAIN object.keys : object.keys[i] = key /\ object.items[i] = value

\* the target database of a source database, 0 when it has none
DatabaseImage(n) == resolve_db_id(n)

\* the target collection of a source collection, 0 when it has none
CollectionImage(n) == IF n \in DOMAIN collection_map THEN collection_map[n] ELSE 0

\* "returned" is the "groups" object "given" with, under every group id,
\* each numeric key that has an image replaced by that image, every other
\* key kept, every value kept, and nothing else
GroupsRewritten(given, returned, Image(_)) ==
    /\ returned.kind = "dict"
    /\ returned.keys = given.keys
    /\ \A g \in DOMAIN given.keys :
          /\ \A j \in DOMAIN given.items[g].keys :
                LET key == given.items[g].keys[j]
                    value == given.items[g].items[j]
                IN  IF isdigit(key)
                    THEN Image(int(key)) # 0 =>
                             HasEntry(returned.items[g], ToString(Image(int(key))), value)
                    ELSE HasEntry(returned.items[g], key, value)
          /\ \A r \in DOMAIN returned.items[g].keys :
                \E j \in DOMAIN given.items[g].keys :
                    LET key == given.items[g].keys[j]
                    IN  /\ returned.items[g].items[r] = given.items[g].items[j]
                        /\ returned.items[g].keys[r] =
                               IF isdigit(key) THEN ToString(Image(int(key))) ELSE key

\* the data graph comes back with the keys under groups[group_id] rewritten
\* by the database map
DataGraphRewritten ==
    rewrite_pc = "permissions_done" =>
        /\ ~rewrite_output[1].raises
        /\ GroupsRewritten(dict_get(rewrite_input, "groups"), rewrite_output[1].graph,
                           DatabaseImage)

\* the collection graph comes back with the keys under groups[group_id]
\* rewritten by the collection map
CollectionGraphRewritten ==
    rewrite_pc = "collection_permissions_done" =>
        /\ ~rewrite_output[1].raises
        /\ GroupsRewritten(dict_get(rewrite_input, "groups"),
                           dict_get(rewrite_output[1].graph, "groups"),
                           CollectionImage)

\* C28: in both permission graphs the installer rewrites the keys under
\* groups[group_id] and nothing else: a numeric key becomes its image under
\* the database map (data graph) or the collection map (collection graph),
\* "root" and every other non-numeric key are kept, and the group ids and
\* the permission values are unchanged.
C28_PermissionGraphKeysRewritten ==
    DataGraphRewritten /\ CollectionGraphRewritten

(***************************************************************************)
(* References to cards of the package that have no target id yet.          *)
(***************************************************************************)
\* the cards a payload references as "card__<id>", in its source-table and
\* in its joins
TableReferences(card_data) ==
    {card_data.source_table.id : x \in {y \in {1} : card_data.source_table.kind = "card"}}
    \cup {card_data.joins[j].id :
             j \in {n \in DOMAIN card_data.joins : card_data.joins[n].kind = "card"}}

ManifestCardIds == {manifest.cards[i].id : i \in DOMAIN manifest.cards}

\* C29: a card that references a card of the manifest which has no target
\* id in the card map when the card is installed (it failed, was left out
\* as archived, or is part of a cycle) is not submitted: the step of the
\* loop over the cards issues no create_card or update_card for it.
C29_NoUntranslatedReferenceSubmitted ==
    [][ItemStep("cards") =>
          \A i \in DOMAIN NewCalls :
              NewCalls[i].api \in {"create_card", "update_card"} =>
                  \A r \in TableReferences(work[cursor].data) \cap ManifestCardIds :
                      r \in DOMAIN card_map]_vars

(***************************************************************************)
(* Source cards registered to one target card.                             *)
(***************************************************************************)
\* the card of the manifest with a given id
ManifestCard(id) ==
    manifest.cards[CHOOSE i \in DOMAIN manifest.cards : manifest.cards[i].id = id]

\* two distinct source cards registered to the same target card
SharedTarget(a, b) ==
    a \in DOMAIN card_map /\ b \in DOMAIN card_map /\ a # b /\ card_map[a] = card_map[b]

\* C30, as stated: after an import run the card map is injective under
\* every conflict strategy, two distinct source cards of the manifest are
\* never registered to the same target card id, also when they share a name
\* and a collection.
C30_CardMapInjective ==
    (pc = "exit" /\ report_written) =>
        \A a, b \in ManifestCardIds : ~SharedTarget(a, b)

\* C30, amended: two distinct source cards are registered to the same
\* target card id only under the skip or the overwrite strategy and only
\* when they have the same name and resolve to the same target collection;
\* under rename, and between cards that differ in name or in collection,
\* the card map is injective.
C30_CardMapInjectiveUpToNameAndCollection ==
    \A a, b \in ManifestCardIds :
        SharedTarget(a, b) =>
            /\ conflict_strategy \in {"skip", "overwrite"}
            /\ ManifestCard(a).name = ManifestCard(b).name
            /\ ResolvedCollection(ManifestCard(a)) = ResolvedCollection(ManifestCard(b))

\* a finished skip run in which two source cards of one name and one
\* collection are both registered to the same target card
C30_Witness ==
    /\ pc = "exit" /\ report_written
    /\ conflict_strategy = "skip"
    /\ \E a, b \in ManifestCardIds :
          /\ SharedTarget(a, b)
          /\ ManifestCard(a).name = ManifestCard(b).name
          /\ ResolvedCollection(ManifestCard(a)) = ResolvedCollection(ManifestCard(b))

====
